---- MODULE Spec2Model ----
(***************************************************************************)
(* A model of the vibe-tetris-rs simulation engine: the piece catalog      *)
(* (tetrimino.rs), the board (board.rs), the rules engine (game_state.rs)  *)
(* and the driving loop (game.rs, Game::run).                              *)
(*                                                                         *)
(* Coordinates are the program's: x grows to the right, y grows downwards, *)
(* both 0-based.  The grid is a sequence of rows, so the program's         *)
(* cells[y][x] is cells[y + 1][x + 1] here.                                *)
(***************************************************************************)
EXTENDS Integers, Sequences, FiniteSets, TLC

\* ------------------------------------------------------------------ bounds
\* Board dimensions of the explored configuration (config.board_width,
\* config.board_height: any usize in the program).
BOARD_WIDTH == 4
BOARD_HEIGHT == 4
\* Number of shuffle outcomes of refill_bag that are explored.
ShuffleCount == 1
\* Cap on the number of spawn_piece calls of one explored game, for the
\* engine driven call by call and for the engine driven by Game::run.
MaxSpawns == 2
MaxRunSpawns == 3
\* Cap on how far the stored rotation counter is followed away from 0
\* (upwards from 0, and downwards from usize::MAX).
MaxRotation == 2
\* Cap on the number of spawn_piece calls (locks without a full row, and
\* completed clears) of one explored sequence of the scoring counters.
MaxScoreCalls == 4
\* Cap on the number of spawn_piece calls of one explored run of the bag.
MaxBagSpawns == 15
\* Cap on the number of cells covered by locks made directly on a board.
MaxLockedCells == 8
\* Cap on the number of locks of one explored run of the timed loop.
MaxClockLocks == 1
\* The clock of the timed loop is read in multiples of this many ms.
TimeStep == 250

\* ------------------------------------------------------- program constants
\* A usize value v of the rotation counter is written v when it is near 0 and
\* v - 2^64 when it is near usize::MAX (so usize::MAX is written -1, and
\* usize::MAX - 1 is written -2): 2^64 is a multiple of 4, so v % 4 is the
\* same in both writings, and the counter is followed only within
\* MaxRotation of either end.
USIZE_MAX == 0 - 1
DEFAULT_LINES_PER_LEVEL == 10
DEFAULT_STARTING_LEVEL == 1
DEFAULT_PREVIEW_COUNT == 3

\* Option<TetriminoType> (a board cell, held_piece) is a kind or None;
\* Option<Tetrimino> and Option<LineClearAnimation> are Nil or Some(v).
None == "None"
Nil == <<>>
Some(v) == <<v>>
Unwrap(o) == o[1]

\* ------------------------------------------------------------ tetrimino.rs
TetriminoType == {"I", "O", "T", "S", "Z", "J", "L"}

\* Tetrimino::new
Tetrimino_new(kind) == [kind |-> kind, x |-> 0, y |-> 0, rotation |-> 0]

\* The match of Tetrimino::get_blocks (tetrimino.rs:32-73) as a table: the 4
\* relative (dx, dy) blocks of each kind in each of the 4 orientations.
BlockTable ==
  [kind \in TetriminoType |->
    CASE kind = "I" -> << << <<0, 0>>, <<1, 0>>, <<2, 0>>, <<3, 0>> >>,
                          << <<2, 0>>, <<2, 1>>, <<2, 2>>, <<2, 3>> >>,
                          << <<0, 2>>, <<1, 2>>, <<2, 2>>, <<3, 2>> >>,
                          << <<1, 0>>, <<1, 1>>, <<1, 2>>, <<1, 3>> >> >>
      [] kind = "O" -> << << <<0, 0>>, <<1, 0>>, <<0, 1>>, <<1, 1>> >>,
                          << <<0, 0>>, <<1, 0>>, <<0, 1>>, <<1, 1>> >>,
                          << <<0, 0>>, <<1, 0>>, <<0, 1>>, <<1, 1>> >>,
                          << <<0, 0>>, <<1, 0>>, <<0, 1>>, <<1, 1>> >> >>
      [] kind = "T" -> << << <<1, 0>>, <<0, 1>>, <<1, 1>>, <<2, 1>> >>,
                          << <<1, 0>>, <<1, 1>>, <<2, 1>>, <<1, 2>> >>,
                          << <<0, 1>>, <<1, 1>>, <<2, 1>>, <<1, 2>> >>,
                          << <<1, 0>>, <<0, 1>>, <<1, 1>>, <<1, 2>> >> >>
      [] kind = "S" -> << << <<1, 0>>, <<2, 0>>, <<0, 1>>, <<1, 1>> >>,
                          << <<1, 0>>, <<1, 1>>, <<2, 1>>, <<2, 2>> >>,
                          << <<1, 1>>, <<2, 1>>, <<0, 2>>, <<1, 2>> >>,
                          << <<0, 0>>, <<0, 1>>, <<1, 1>>, <<1, 2>> >> >>
      [] kind = "Z" -> << << <<0, 0>>, <<1, 0>>, <<1, 1>>, <<2, 1>> >>,
                          << <<2, 0>>, <<1, 1>>, <<2, 1>>, <<1, 2>> >>,
                          << <<0, 1>>, <<1, 1>>, <<1, 2>>, <<2, 2>> >>,
                          << <<1, 0>>, <<0, 1>>, <<1, 1>>, <<0, 2>> >> >>
      [] kind = "J" -> << << <<0, 0>>, <<0, 1>>, <<1, 1>>, <<2, 1>> >>,
                          << <<1, 0>>, <<2, 0>>, <<1, 1>>, <<1, 2>> >>,
                          << <<0, 1>>, <<1, 1>>, <<2, 1>>, <<2, 2>> >>,
                          << <<1, 0>>, <<1, 1>>, <<0, 2>>, <<1, 2>> >> >>
      [] kind = "L" -> << << <<2, 0>>, <<0, 1>>, <<1, 1>>, <<2, 1>> >>,
                          << <<1, 0>>, <<1, 1>>, <<1, 2>>, <<2, 2>> >>,
                          << <<0, 1>>, <<1, 1>>, <<2, 1>>, <<0, 2>> >>,
                          << <<0, 0>>, <<1, 0>>, <<1, 1>>, <<1, 2>> >> >>]

\* Tetrimino::get_blocks matching on the rotation counter itself, with the
\* first arm of the kind taken for a counter above 3.
get_blocks_unreduced(t) ==
  BlockTable[t.kind][IF t.rotation \in 0..3 THEN t.rotation + 1 ELSE 1]

\* Tetrimino::get_blocks: the row of (kind, rotation % 4).
get_blocks(t) == BlockTable[t.kind][(t.rotation % 4) + 1]

\* The absolute cell (x, y) of block i of a piece (board.rs:20-21, 36-37).
AbsBlock(t, i) == <<t.x + get_blocks(t)[i][1], t.y + get_blocks(t)[i][2]>>

\* ---------------------------------------------------------------- board.rs
EmptyRow(width) == [x \in 1..width |-> None]

\* Board::new
Board_new(width, height) ==
  [width |-> width, height |-> height,
   cells |-> [y \in 1..height |-> EmptyRow(width)]]

\* The bounds test of Board::is_valid_position (board.rs:23).
InBounds(b, c) ==
  ~(c[1] < 0 \/ c[1] >= b.width \/ c[2] < 0 \/ c[2] >= b.height)

\* An is_valid_position that tests the bounds only, not the occupancy.
is_valid_position_bounds_only(b, t) ==
  \A i \in 1..4 : InBounds(b, AbsBlock(t, i))

\* Board::is_valid_position: every block in bounds and on an empty cell.
is_valid_position(b, t) ==
  \A i \in 1..4 :
    /\ InBounds(b, AbsBlock(t, i))
    /\ b.cells[AbsBlock(t, i)[2] + 1][AbsBlock(t, i)[1] + 1] = None

\* Board::lock_tetromino indexes cells[y][x] without a check: a block outside
\* the grid is an index out of bounds, which panics.
LockPanics(b, t) == \E i \in 1..4 : ~InBounds(b, AbsBlock(t, i))

\* The loop of Board::lock_tetromino from block i on: cells[y][x] = Some(kind).
RECURSIVE LockBlocks(_, _, _)
LockBlocks(cells, t, i) ==
  IF i > 4 THEN cells
  ELSE LockBlocks(
         [cells EXCEPT ![AbsBlock(t, i)[2] + 1][AbsBlock(t, i)[1] + 1] = t.kind],
         t, i + 1)

\* Board::lock_tetromino with the first block of the piece left out.
lock_tetromino_skips_block(b, t) == [b EXCEPT !.cells = LockBlocks(b.cells, t, 2)]

\* Board::lock_tetromino: write the kind into the piece's 4 cells.
lock_tetromino(b, t) == [b EXCEPT !.cells = LockBlocks(b.cells, t, 1)]

\* The row test of get_full_lines and clear_lines: all cells are Some.
RowFull(row) == \A x \in 1..Len(row) : row[x] # None

\* Board::get_full_lines: the indices of the full rows, ascending.
RECURSIVE FullLinesFrom(_, _)
FullLinesFrom(b, y) ==
  IF y >= b.height THEN <<>>
  ELSE (IF RowFull(b.cells[y + 1]) THEN <<y>> ELSE <<>>) \o FullLinesFrom(b, y + 1)

get_full_lines(b) == FullLinesFrom(b, 0)

\* A row removal that blanks the row where it is, shifting nothing.
RemoveRowInPlace(cells, y, width) == [cells EXCEPT ![y + 1] = EmptyRow(width)]

\* Vec::remove(y) followed by Vec::insert(0, empty row) (board.rs:58-59).
RemoveRow(cells, y, width) ==
  <<EmptyRow(width)>> \o SubSeq(cells, 1, y) \o SubSeq(cells, y + 2, Len(cells))

\* The scan loop of Board::clear_lines with the bound `y >= 0` (row 0 tested).
RECURSIVE ClearScanToTop(_, _, _, _)
ClearScanToTop(cells, y, lines_cleared, width) ==
  IF y >= 0
    THEN IF RowFull(cells[y + 1])
           THEN ClearScanToTop(RemoveRow(cells, y, width), y, lines_cleared + 1, width)
           ELSE ClearScanToTop(cells, y - 1, lines_cleared, width)
    ELSE [cells |-> cells, lines_cleared |-> lines_cleared]

\* The scan loop of Board::clear_lines: `while y > 0`, y kept after a removal.
RECURSIVE ClearScan(_, _, _, _)
ClearScan(cells, y, lines_cleared, width) ==
  IF y > 0
    THEN IF RowFull(cells[y + 1])
           THEN ClearScan(RemoveRow(cells, y, width), y, lines_cleared + 1, width)
           ELSE ClearScan(cells, y - 1, lines_cleared, width)
    ELSE [cells |-> cells, lines_cleared |-> lines_cleared]

\* Board::clear_lines: the board afterwards and the returned count.
clear_lines(b) ==
  LET r == ClearScan(b.cells, b.height - 1, 0, b.width) IN
  [board |-> [b EXCEPT !.cells = r.cells], lines |-> r.lines_cleared]

\* Board::get_cell
get_cell(b, x, y) ==
  IF y < b.height /\ x < b.width THEN b.cells[y + 1][x + 1] ELSE None

\* ----------------------------------------------------------- game_state.rs
\* The 7-bag before shuffling (refill_bag, game_state.rs:377-385).
BagKinds == <<"I", "O", "T", "S", "Z", "J", "L">>

\* Shuffle outcomes of new_bag.shuffle(&mut rng()) that are explored: each is
\* a permutation of BagKinds.  Vec::pop takes from the end, so the kinds are
\* drawn right to left.
ShuffleTable ==
  << <<"J", "Z", "S", "T", "O", "L", "I">>,
     <<"Z", "S", "L", "J", "I", "O", "T">>,
     <<"I", "L", "J", "T", "Z", "S", "O">>,
     <<"J", "Z", "S", "T", "O", "I", "L">> >>

\* The first ShuffleCount outcomes of the table.
Shuffles ==
  {ShuffleTable[i] : i \in 1..(IF ShuffleCount < Len(ShuffleTable)
                                 THEN ShuffleCount ELSE Len(ShuffleTable))}

\* The last ShuffleCount outcomes of the table.
RunShuffles ==
  {ShuffleTable[Len(ShuffleTable) + 1 - i] :
     i \in 1..(IF ShuffleCount < Len(ShuffleTable)
                 THEN ShuffleCount ELSE Len(ShuffleTable))}

\* GameState::refill_bag: the bag becomes the shuffled full set, sh being the
\* outcome of the shuffle.
refill_bag(s, sh) == [s EXCEPT !.bag = sh]

\* A clamp that returns the value as it is.
NoClamp(v, lo, hi) == v

\* usize::clamp(1, 6) of populate_next_pieces.
Clamp(v, lo, hi) == IF v < lo THEN lo ELSE IF v > hi THEN hi ELSE v

\* A populate_next_pieces that refills the bag as soon as one kind is left in
\* it, dropping that kind.
RECURSIVE populate_next_pieces_early_refill(_, _)
populate_next_pieces_early_refill(s, sh) ==
  LET target_count == Clamp(s.config.preview_count, 1, 6) IN
  IF Len(s.next_pieces) < target_count
    THEN LET s1 == IF Len(s.bag) <= 1 THEN refill_bag(s, sh) ELSE s
             piece == s1.bag[Len(s1.bag)]
         IN populate_next_pieces_early_refill(
              [s1 EXCEPT !.bag = SubSeq(s1.bag, 1, Len(s1.bag) - 1),
                         !.next_pieces = Append(s1.next_pieces, piece),
                         !.drawn = Append(s1.drawn, piece)], sh)
    ELSE s

\* GameState::populate_next_pieces: pop from the bag (refilled when empty)
\* and push to the queue until it holds the target count.  The else branch of
\* the pop (game_state.rs:402-407) is never taken: the bag was just refilled.
RECURSIVE populate_next_pieces(_, _)
populate_next_pieces(s, sh) ==
  LET target_count == Clamp(s.config.preview_count, 1, 6) IN
  IF Len(s.next_pieces) < target_count
    THEN LET s1 == IF s.bag = <<>> THEN refill_bag(s, sh) ELSE s
             piece == s1.bag[Len(s1.bag)]
         IN populate_next_pieces(
              [s1 EXCEPT !.bag = SubSeq(s1.bag, 1, Len(s1.bag) - 1),
                         !.next_pieces = Append(s1.next_pieces, piece),
                         !.drawn = Append(s1.drawn, piece)], sh)
    ELSE s

\* GameState::new.  panicked is not a field of the program: it records that a
\* call has panicked (the process is aborted and makes no further call).
\* drawn is not a field of the program either: it records the kinds popped
\* from the bag so far, in the order of the pops.
GameState_new(config, sh) ==
  LET game_state ==
        [board |-> Board_new(config.board_width, config.board_height),
         current_piece |-> Nil,
         held_piece |-> None,
         next_pieces |-> <<>>,
         score |-> 0,
         level |-> config.starting_level,
         lines_cleared |-> 0,
         game_over |-> FALSE,
         config |-> config,
         bag |-> <<>>,
         lines_until_next_level |-> config.lines_per_level,
         pieces_placed |-> 0,
         combo_count |-> 0,
         back_to_back_active |-> FALSE,
         last_was_special |-> FALSE,
         line_clear_animation |-> Nil,
         pending_line_clear |-> FALSE,
         show_help |-> FALSE,
         panicked |-> FALSE,
         drawn |-> <<>>]
  IN populate_next_pieces(refill_bag(game_state, sh), sh)

\* A spawn_piece that never tests the spawned piece's position.
spawn_piece_unchecked(s, sh) ==
  IF s.next_pieces # <<>>
    THEN populate_next_pieces(
           [s EXCEPT !.current_piece = Some(Tetrimino_new(Head(s.next_pieces))),
                     !.next_pieces = Tail(s.next_pieces)], sh)
    ELSE s

\* A spawn_piece that takes the last kind of the queue instead of the first.
spawn_piece_lifo(s, sh) ==
  IF s.next_pieces # <<>>
    THEN LET piece == Tetrimino_new(s.next_pieces[Len(s.next_pieces)])
             s1 == [s EXCEPT !.current_piece = Some(piece),
                             !.next_pieces =
                                SubSeq(s.next_pieces, 1, Len(s.next_pieces) - 1)]
             s2 == populate_next_pieces(s1, sh)
         IN IF ~is_valid_position(s2.board, Unwrap(s2.current_piece))
              THEN [s2 EXCEPT !.game_over = TRUE]
              ELSE s2
    ELSE s

\* GameState::spawn_piece
spawn_piece(s, sh) ==
  IF s.next_pieces # <<>>
    THEN LET piece == Tetrimino_new(Head(s.next_pieces))
             s1 == [s EXCEPT !.current_piece = Some(piece),
                             !.next_pieces = Tail(s.next_pieces)]
             s2 == populate_next_pieces(s1, sh)
         IN IF ~is_valid_position(s2.board, Unwrap(s2.current_piece))
              THEN [s2 EXCEPT !.game_over = TRUE]
              ELSE s2
    ELSE s

\* The piece translated by (dx, dy).
Shifted(t, dx, dy) == [t EXCEPT !.x = t.x + dx, !.y = t.y + dy]

\* The return value of GameState::move_piece.
move_piece_ret(s, dx, dy) ==
  /\ s.current_piece # Nil
  /\ is_valid_position(s.board, Shifted(Unwrap(s.current_piece), dx, dy))

\* A move_piece that keeps the translated piece whether or not it is valid.
move_piece_no_revert(s, dx, dy) ==
  IF s.current_piece = Nil
    THEN s
    ELSE [s EXCEPT !.current_piece = Some(Shifted(Unwrap(s.current_piece), dx, dy))]

\* GameState::move_piece: translate, and revert if the position is invalid.
move_piece(s, dx, dy) ==
  IF move_piece_ret(s, dx, dy)
    THEN [s EXCEPT !.current_piece = Some(Shifted(Unwrap(s.current_piece), dx, dy))]
    ELSE s

\* GameState::get_wall_kicks
get_wall_kicks(piece_type, from_rotation, to_rotation) ==
  LET f == from_rotation % 4
      t == to_rotation % 4
  IN
  IF piece_type = "I" THEN
    CASE f = 0 /\ t = 1 -> << <<0, 0>>, <<-2, 0>>, <<1, 0>>, <<-2, -1>>, <<1, 2>> >>
      [] f = 1 /\ t = 0 -> << <<0, 0>>, <<2, 0>>, <<-1, 0>>, <<2, 1>>, <<-1, -2>> >>
      [] f = 1 /\ t = 2 -> << <<0, 0>>, <<-1, 0>>, <<2, 0>>, <<-1, 2>>, <<2, -1>> >>
      [] f = 2 /\ t = 1 -> << <<0, 0>>, <<1, 0>>, <<-2, 0>>, <<1, -2>>, <<-2, 1>> >>
      [] f = 2 /\ t = 3 -> << <<0, 0>>, <<2, 0>>, <<-1, 0>>, <<2, 1>>, <<-1, -2>> >>
      [] f = 3 /\ t = 2 -> << <<0, 0>>, <<-2, 0>>, <<1, 0>>, <<-2, -1>>, <<1, 2>> >>
      [] f = 3 /\ t = 0 -> << <<0, 0>>, <<1, 0>>, <<-2, 0>>, <<1, -2>>, <<-2, 1>> >>
      [] f = 0 /\ t = 3 -> << <<0, 0>>, <<-1, 0>>, <<2, 0>>, <<-1, 2>>, <<2, -1>> >>
      [] OTHER -> << <<0, 0>> >>
  ELSE IF piece_type = "O" THEN << <<0, 0>> >>
  ELSE
    CASE f = 0 /\ t = 1 -> << <<0, 0>>, <<0, -1>>, <<-1, 0>>, <<-1, -1>> >>
      [] f = 1 /\ t = 0 -> << <<0, 0>>, <<0, 1>>, <<1, 0>>, <<1, 1>> >>
      [] f = 1 /\ t = 2 -> << <<0, 0>>, <<0, -1>>, <<1, 0>>, <<1, -1>> >>
      [] f = 2 /\ t = 1 -> << <<0, 0>>, <<0, 1>>, <<-1, 0>>, <<-1, 1>> >>
      [] f = 2 /\ t = 3 -> << <<0, 0>>, <<0, -1>>, <<-1, 0>>, <<-1, -1>> >>
      [] f = 3 /\ t = 2 -> << <<0, 0>>, <<0, 1>>, <<1, 0>>, <<1, 1>> >>
      [] f = 3 /\ t = 0 -> << <<0, 0>>, <<0, -1>>, <<1, 0>>, <<1, -1>> >>
      [] f = 0 /\ t = 3 -> << <<0, 0>>, <<0, 1>>, <<-1, 0>>, <<-1, 1>> >>
      [] OTHER -> << <<0, 0>> >>

\* `old_rotation + 1` on usize overflows exactly at usize::MAX
\* (game_state.rs:118): a panic with overflow checks, a wrap to 0 without.
RotationOverflows(t, clockwise) == clockwise /\ t.rotation = USIZE_MAX

\* new_rotation of rotate_piece: old + 1, or old.wrapping_sub(1).
new_rotation(t, clockwise) ==
  IF clockwise THEN (IF t.rotation = USIZE_MAX THEN 0 ELSE t.rotation + 1)
               ELSE (IF t.rotation = 0 THEN USIZE_MAX ELSE t.rotation - 1)

\* The piece that kick i of the list is tested with: the offset is added to
\* the pre-rotation (x, y), the new rotation is kept.
Kicked(t, nr, k) == [t EXCEPT !.x = t.x + k[1], !.y = t.y + k[2], !.rotation = nr]

\* The `for (dx, dy) in kicks` loop: the index of the first kick whose
\* position is valid, from index i on; 0 if there is none.
RECURSIVE FirstKick(_, _, _, _, _)
FirstKick(b, t, nr, kicks, i) ==
  IF i > Len(kicks) THEN 0
  ELSE IF is_valid_position(b, Kicked(t, nr, kicks[i])) THEN i
  ELSE FirstKick(b, t, nr, kicks, i + 1)

\* What rotate_piece does with the current piece t: -1 the basic rotation is
\* valid, i >= 1 kick i is taken, 0 the rotation is reverted.
rotate_outcome(b, t, clockwise) ==
  LET nr == new_rotation(t, clockwise) IN
  IF is_valid_position(b, [t EXCEPT !.rotation = nr]) THEN -1
  ELSE FirstKick(b, t, nr, get_wall_kicks(t.kind, t.rotation, nr), 1)

\* GameState::rotate_piece; checks says whether the build has overflow checks
\* (the dev profile has, the release profile has not).
rotate_piece(s, clockwise, checks) ==
  IF s.current_piece = Nil THEN s
  ELSE IF RotationOverflows(Unwrap(s.current_piece), clockwise) /\ checks
    THEN [s EXCEPT !.panicked = TRUE]
  ELSE
    LET t == Unwrap(s.current_piece)
        nr == new_rotation(t, clockwise)
        o == rotate_outcome(s.board, t, clockwise)
    IN IF o = -1 THEN [s EXCEPT !.current_piece = Some([t EXCEPT !.rotation = nr])]
       ELSE IF o = 0 THEN s
       ELSE [s EXCEPT !.current_piece =
               Some(Kicked(t, nr, get_wall_kicks(t.kind, t.rotation, nr)[o]))]

\* GameState::compute_awarded_lines
compute_awarded_lines(cleared_lines, is_tspin) == cleared_lines

\* A check_tspin that reports a T-spin on every clear.
check_tspin_always(s) == TRUE

\* GameState::check_tspin: the placeholder returns false.
check_tspin(s) == FALSE

\* a >= b on u32.  A u32 of 2^31 or more is held as the negative integer that
\* is congruent to it mod 2^32 (so 2^32 - k is held as -k): sums and differences
\* are then the wrapping ones, and the order is the unsigned one.
U32Ge(a, b) == IF (a < 0) = (b < 0) THEN a >= b ELSE a < 0

\* `lines_required - overflow` (game_state.rs:314) is below zero in u32.
FixedGoalUnderflows(s, lines_cleared) ==
  /\ U32Ge(lines_cleared, s.lines_until_next_level)
  /\ ~U32Ge(s.config.lines_per_level, lines_cleared - s.lines_until_next_level)

\* GameState::update_level_fixed_goal with the goal reset to lines_per_level
\* on a level-up, the overflow dropped.
update_level_fixed_goal_no_carry(s, lines_cleared, checks) ==
  IF U32Ge(lines_cleared, s.lines_until_next_level)
    THEN [s EXCEPT !.lines_until_next_level = s.config.lines_per_level,
                   !.level = s.level + 1]
    ELSE [s EXCEPT !.lines_until_next_level = s.lines_until_next_level - lines_cleared]

\* GameState::update_level_fixed_goal.  checks: the build checks integer
\* overflow, and the subtraction that underflows panics; without checks it wraps.
update_level_fixed_goal(s, lines_cleared, checks) ==
  LET lines_required == s.config.lines_per_level IN
  IF U32Ge(lines_cleared, s.lines_until_next_level)
    THEN LET overflow == lines_cleared - s.lines_until_next_level IN
         IF checks /\ FixedGoalUnderflows(s, lines_cleared)
           THEN [s EXCEPT !.panicked = TRUE]
           ELSE [s EXCEPT !.lines_until_next_level = lines_required - overflow,
                          !.level = s.level + 1]
    ELSE [s EXCEPT !.lines_until_next_level = s.lines_until_next_level - lines_cleared]

Max(a, b) == IF a >= b THEN a ELSE b
Min(a, b) == IF a <= b THEN a ELSE b

\* adjusted_lines_needed of update_level_variable_goal, in exact arithmetic
\* over the common denominator 20 * L (L = lines_cleared.max(1)):
\* efficiency = min(pieces_placed / L, 2), back-to-back reduction =
\* max(level / 10, 1/2) or 0, combo reduction = min(combo_count / 20, 1/2);
\* the result is max(value, 1.0) truncated to u32.  The f64 computation and
\* this one give the same u32, here and for the goal below, for every level up
\* to 5, lines_per_level up to 40 and 1..4 lines; f64 rounding can make them
\* differ by one from level 6 on.
adjusted_lines_needed(s, lines_cleared, is_tspin) ==
  LET L == Max(lines_cleared, 1)
      D == 20 * L
      is_special_clear == lines_cleared = 4 \/ is_tspin
      eff == IF s.pieces_placed > 0
               THEN Min(20 * s.pieces_placed, 40 * L)
               ELSE 20 * L
      b2b == IF s.back_to_back_active /\ is_special_clear
               THEN Max(2 * s.level, 10) * L ELSE 0
      combo == Min(s.combo_count, 10) * L
      v == s.config.lines_per_level * eff - b2b - combo
  IN IF v < D THEN 1 ELSE v \div D

\* GameState::update_level_variable_goal
update_level_variable_goal(s, lines_cleared, is_tspin) ==
  LET adjusted == adjusted_lines_needed(s, lines_cleared, is_tspin) IN
  IF lines_cleared >= s.lines_until_next_level
    THEN LET overflow == lines_cleared - s.lines_until_next_level
             \* (adjusted * (1.0 + level * 0.02)).max(1.0) as u32
             goal == Max((adjusted * (50 + s.level)) \div 50, 1)
         IN [s EXCEPT !.lines_until_next_level =
                        IF overflow > 0 THEN Max(goal - overflow, 0) ELSE goal,
                      !.level = s.level + 1]
    ELSE [s EXCEPT !.lines_until_next_level = s.lines_until_next_level - lines_cleared]

BaseScore(awarded_lines) ==
  CASE awarded_lines = 1 -> 100
    [] awarded_lines = 2 -> 300
    [] awarded_lines = 3 -> 500
    [] awarded_lines = 4 -> 800
    [] OTHER -> 0

TspinBonus(awarded_lines) ==
  CASE awarded_lines = 1 -> 800
    [] awarded_lines = 2 -> 1200
    [] awarded_lines = 3 -> 1600
    [] awarded_lines = 4 -> 2000
    [] OTHER -> 0

\* A combo bonus that does not grow with the combo.
combo_bonus_flat(s) == IF s.combo_count > 0 THEN 50 ELSE 0

\* combo_bonus of update_score (game_state.rs:244-248).
combo_bonus(s) == IF s.combo_count > 0 THEN s.combo_count * 50 ELSE 0

\* A back-to-back bonus paid on every special clear, whatever the flag.
back_to_back_bonus_unflagged(s, is_special, base_score, tspin_bonus) ==
  IF is_special THEN (base_score + tspin_bonus) \div 2 ELSE 0

\* back_to_back_bonus of update_score (game_state.rs:251-256).
back_to_back_bonus(s, is_special, base_score, tspin_bonus) ==
  IF s.back_to_back_active /\ is_special
    THEN (base_score + tspin_bonus) \div 2 ELSE 0

\* GameState::update_score.  checks: the build checks integer overflow.
update_score(s, lines, checks) ==
  IF lines = 0
    THEN [s EXCEPT !.combo_count = 0, !.last_was_special = FALSE]
    ELSE
      LET is_tspin == check_tspin(s)
          awarded_lines == compute_awarded_lines(lines, is_tspin)
          base_score == BaseScore(awarded_lines)
          tspin_bonus == IF is_tspin THEN TspinBonus(awarded_lines) ELSE 0
          is_special == awarded_lines = 4 \/ is_tspin
          s1 == [s EXCEPT
                   !.score = s.score
                     + (base_score + tspin_bonus + combo_bonus(s)
                        + back_to_back_bonus(s, is_special, base_score, tspin_bonus))
                       * s.level,
                   !.back_to_back_active = is_special,
                   !.last_was_special = is_special,
                   !.combo_count = s.combo_count + 1]
      IN IF s.config.enable_variable_goal
           THEN update_level_variable_goal(s1, lines, is_tspin)
           ELSE update_level_fixed_goal(s1, lines, checks)

\* A lock_current_piece that removes the full rows at once instead of
\* leaving them for complete_line_clear.
lock_current_piece_eager(s, sh) ==
  IF s.current_piece = Nil THEN s
  ELSE IF LockPanics(s.board, Unwrap(s.current_piece))
    THEN [s EXCEPT !.current_piece = Nil, !.panicked = TRUE]
  ELSE
    LET piece == Unwrap(s.current_piece)
        r == clear_lines(lock_tetromino(s.board, piece))
        s1 == [s EXCEPT !.current_piece = Nil,
                        !.board = r.board,
                        !.pieces_placed = s.pieces_placed + 1,
                        !.lines_cleared = s.lines_cleared + r.lines]
    IN spawn_piece(update_score(s1, r.lines, FALSE), sh)

\* A lock_current_piece that leaves the locked piece current while its clear
\* is pending.
lock_current_piece_keeps_piece(s, sh) ==
  IF s.current_piece = Nil THEN s
  ELSE IF LockPanics(s.board, Unwrap(s.current_piece))
    THEN [s EXCEPT !.current_piece = Nil, !.panicked = TRUE]
  ELSE
    LET piece == Unwrap(s.current_piece)
        s1 == [s EXCEPT !.board = lock_tetromino(s.board, piece),
                        !.pieces_placed = s.pieces_placed + 1]
        cleared_rows == get_full_lines(s1.board)
        lines == Len(cleared_rows)
    IN IF lines > 0
         THEN [s1 EXCEPT !.line_clear_animation =
                           Some([cleared_rows |-> cleared_rows, total_lines |-> lines]),
                         !.pending_line_clear = TRUE]
         ELSE spawn_piece(update_score([s1 EXCEPT !.current_piece = Nil], 0, FALSE), sh)

\* GameState::lock_current_piece.  The marker's start_time (Instant::now())
\* is read only by is_line_clear_animation_active, whose value is drawn where
\* the loop polls it (RunTickClear).
lock_current_piece(s, sh) ==
  IF s.current_piece = Nil THEN s
  ELSE IF LockPanics(s.board, Unwrap(s.current_piece))
    THEN [s EXCEPT !.current_piece = Nil, !.panicked = TRUE]
  ELSE
    LET piece == Unwrap(s.current_piece)
        s1 == [s EXCEPT !.current_piece = Nil,
                        !.board = lock_tetromino(s.board, piece),
                        !.pieces_placed = s.pieces_placed + 1]
        cleared_rows == get_full_lines(s1.board)
        lines == Len(cleared_rows)
    IN IF lines > 0
         THEN [s1 EXCEPT !.line_clear_animation =
                           Some([cleared_rows |-> cleared_rows, total_lines |-> lines]),
                         !.pending_line_clear = TRUE]
         ELSE spawn_piece(update_score(s1, 0, FALSE), sh)

\* The `while self.move_piece(0, 1) {}` loop of hard_drop.
RECURSIVE DropLoop(_)
DropLoop(s) == IF move_piece_ret(s, 0, 1) THEN DropLoop(move_piece(s, 0, 1)) ELSE s

\* A hard_drop that moves the piece down by one step at most before locking.
hard_drop_single_step(s, sh) == lock_current_piece(move_piece(s, 0, 1), sh)

\* GameState::hard_drop
hard_drop(s, sh) == lock_current_piece(DropLoop(s), sh)

\* A complete_line_clear that does not test the pending flag.
complete_line_clear_unguarded(s, sh, checks) ==
  LET r == clear_lines(s.board)
      lines == r.lines
      s1 == [s EXCEPT !.pending_line_clear = FALSE,
                      !.board = r.board,
                      !.lines_cleared = s.lines_cleared + lines]
      s2 == IF lines > 0 THEN update_score(s1, lines, checks) ELSE s1
  IN IF s2.panicked
       THEN s2
       ELSE spawn_piece([s2 EXCEPT !.line_clear_animation = Nil], sh)

\* A complete_line_clear that leaves the marker in place.
complete_line_clear_keeps_marker(s, sh, checks) ==
  IF ~s.pending_line_clear THEN s
  ELSE
    LET r == clear_lines(s.board)
        lines == r.lines
        s1 == [s EXCEPT !.pending_line_clear = FALSE,
                        !.board = r.board,
                        !.lines_cleared = s.lines_cleared + lines]
        s2 == IF lines > 0 THEN update_score(s1, lines, checks) ELSE s1
    IN IF s2.panicked THEN s2 ELSE spawn_piece(s2, sh)

\* GameState::complete_line_clear
complete_line_clear(s, sh, checks) ==
  IF ~s.pending_line_clear THEN s
  ELSE
    LET r == clear_lines(s.board)
        lines == r.lines
        s1 == [s EXCEPT !.pending_line_clear = FALSE,
                        !.board = r.board,
                        !.lines_cleared = s.lines_cleared + lines]
        s2 == IF lines > 0 THEN update_score(s1, lines, checks) ELSE s1
    IN IF s2.panicked
         THEN s2
         ELSE spawn_piece([s2 EXCEPT !.line_clear_animation = Nil], sh)

\* A hold_piece whose swapped-in piece takes over the position and rotation of
\* the piece it replaces.
hold_piece_keeps_position(s, sh) ==
  IF ~s.config.enable_hold THEN s
  ELSE IF s.current_piece = Nil THEN s
  ELSE
    LET current == Unwrap(s.current_piece)
        s1 == [s EXCEPT !.current_piece = Nil]
        s2 == IF s1.held_piece # None
                THEN [s1 EXCEPT !.current_piece =
                                   Some([current EXCEPT !.kind = s1.held_piece])]
                ELSE spawn_piece(s1, sh)
    IN [s2 EXCEPT !.held_piece = current.kind]

\* A hold_piece that does not refill the queue after taking its head.
hold_piece_no_refill(s, sh) ==
  IF ~s.config.enable_hold THEN s
  ELSE IF s.current_piece = Nil THEN s
  ELSE
    LET current == Unwrap(s.current_piece)
        s1 == [s EXCEPT !.current_piece = Nil]
        s2 == IF s1.held_piece # None
                THEN [s1 EXCEPT !.current_piece = Some(Tetrimino_new(s1.held_piece))]
                ELSE [s1 EXCEPT !.current_piece =
                                   Some(Tetrimino_new(Head(s1.next_pieces))),
                                !.next_pieces = Tail(s1.next_pieces)]
    IN [s2 EXCEPT !.held_piece = current.kind]

\* A hold_piece that ignores the enable_hold setting.
hold_piece_always_enabled(s, sh) ==
  IF s.current_piece = Nil THEN s
  ELSE
    LET current == Unwrap(s.current_piece)
        s1 == [s EXCEPT !.current_piece = Nil]
        s2 == IF s1.held_piece # None
                THEN [s1 EXCEPT !.current_piece = Some(Tetrimino_new(s1.held_piece))]
                ELSE spawn_piece(s1, sh)
    IN [s2 EXCEPT !.held_piece = current.kind]

\* GameState::hold_piece
hold_piece(s, sh) ==
  IF ~s.config.enable_hold THEN s
  ELSE IF s.current_piece = Nil THEN s
  ELSE
    LET current == Unwrap(s.current_piece)
        s1 == [s EXCEPT !.current_piece = Nil]
        s2 == IF s1.held_piece # None
                THEN [s1 EXCEPT !.current_piece = Some(Tetrimino_new(s1.held_piece))]
                ELSE spawn_piece(s1, sh)
    IN [s2 EXCEPT !.held_piece = current.kind]

\* is_line_clear_animation_active with a duration of 500 ms whatever the
\* number of lines.
is_line_clear_animation_active_one_line(s, elapsed) ==
  IF s.line_clear_animation # Nil THEN elapsed < 500 ELSE FALSE

\* GameState::is_line_clear_animation_active; elapsed is
\* anim.start_time.elapsed().as_millis().
is_line_clear_animation_active(s, elapsed) ==
  IF s.line_clear_animation # Nil
    THEN elapsed < Unwrap(s.line_clear_animation).total_lines * 500
    ELSE FALSE

\* Game::get_gravity_duration, in ms:
\* (800 / 2^min(level.max(1) - 1, 10)).max(50).
get_gravity_duration(level) ==
  Max(800 \div (2 ^ Min(Max(level, 1) - 1, 10)), 50)

\* ------------------------------------------------------------------- ui.rs
\* A ghost search that returns the first row the piece does not fit in.
RECURSIVE GhostLoopPastEnd(_, _, _)
GhostLoopPastEnd(b, piece, ghost_y) ==
  IF ~is_valid_position(b, [piece EXCEPT !.y = ghost_y + 1])
    THEN ghost_y + 1
    ELSE GhostLoopPastEnd(b, piece, ghost_y + 1)

\* The loop of Renderer::calculate_ghost_y: the piece is tested one row below
\* ghost_y, with its x, kind and rotation, until it does not fit.
RECURSIVE GhostLoop(_, _, _)
GhostLoop(b, piece, ghost_y) ==
  IF ~is_valid_position(b, [piece EXCEPT !.y = ghost_y + 1])
    THEN ghost_y
    ELSE GhostLoop(b, piece, ghost_y + 1)

\* Renderer::calculate_ghost_y
calculate_ghost_y(s) ==
  IF s.current_piece # Nil
    THEN GhostLoop(s.board, Unwrap(s.current_piece), Unwrap(s.current_piece).y)
    ELSE 0

\* ------------------------------------------------------------------- state
\* state: the GameState owned by Game (game.rs:17).
\* pc: the position of Game::run ("api" when the engine is driven call by call).
\* spawned, hold_used: history of the calls (not program state): the number
\*   of spawn_piece calls so far; whether hold_piece has changed the pieces
\*   since the last lock (or the last direct spawn_piece call).
\* ret: the value returned by the last call of a function that is checked on
\*   its own (0 before any).
\* written: history of the locks made directly on the board (not program
\*   state): per cell, the kind of the last locked piece that covered it, or
\*   None (<<>> where the board is not driven lock by lock).
\* clock: the time readings of Game::run in ms (<<>> where no time passes):
\*   gravity_duration is the local of that name (game.rs:51), since_gravity
\*   is now.duration_since(last_gravity) and anim_elapsed is
\*   start_time.elapsed() of the line-clear marker, each held up to the
\*   largest value it is compared with.
VARIABLES state, pc, spawned, hold_used, ret, written, clock

vars == <<state, pc, spawned, hold_used, ret, written, clock>>

\* GameConfig (make_test_config of game_state.rs:502-516, on the explored board).
Config ==
  [board_width |-> BOARD_WIDTH,
   board_height |-> BOARD_HEIGHT,
   starting_level |-> DEFAULT_STARTING_LEVEL,
   lines_per_level |-> DEFAULT_LINES_PER_LEVEL,
   enable_ghost_piece |-> FALSE,
   enable_hold |-> TRUE,
   enable_variable_goal |-> FALSE,
   enable_sound |-> FALSE,
   preview_count |-> DEFAULT_PREVIEW_COUNT]

\* A call draws from the bag exactly when it runs spawn_piece.
Spawns(s, s2) == IF s2.bag # s.bag THEN 1 ELSE 0

\* The stored rotation counter stays within MaxRotation of 0 or of usize::MAX.
RotationInBound(r) == r <= MaxRotation /\ r >= USIZE_MAX + 1 - MaxRotation

\* refill_bag runs, and its shuffle is drawn, only when the bag is empty.
ShufflesFor(s) == IF s.bag = <<>> THEN Shuffles ELSE {ShuffleTable[1]}

\* The state after GameState::new.
Init ==
  /\ \E sh \in Shuffles : state = GameState_new(Config, sh)
  /\ pc = "api"
  /\ spawned = 0
  /\ hold_used = FALSE
  /\ ret = 0
  /\ written = <<>>
  /\ clock = <<>>

\* The common part of a call that turns the state into s2.
Call(s2) ==
  /\ ~state.panicked
  /\ state' = s2
  /\ spawned' = spawned + Spawns(state, state')
  /\ spawned' <= (IF pc = "api" THEN MaxSpawns ELSE MaxRunSpawns)
  /\ UNCHANGED <<ret, written, clock>>

SpawnPiece ==
  /\ pc = "api" /\ UNCHANGED pc
  /\ \E sh \in ShufflesFor(state) :
       Call(spawn_piece(state, sh))
  /\ hold_used' = FALSE

MovePiece(dx, dy) ==
  /\ pc = "api" /\ UNCHANGED pc
  /\ Call(move_piece(state, dx, dy))
  /\ UNCHANGED hold_used

\* The builds that differ on complete_line_clear: both where the level update
\* underflows.
LevelOverflowChecks(s) ==
  IF /\ s.pending_line_clear
     /\ ~s.config.enable_variable_goal
     /\ clear_lines(s.board).lines > 0
     /\ FixedGoalUnderflows(s, clear_lines(s.board).lines)
    THEN BOOLEAN ELSE {FALSE}

\* The builds that differ on this call: both where it overflows.
OverflowChecks(s, clockwise) ==
  IF s.current_piece # Nil /\ RotationOverflows(Unwrap(s.current_piece), clockwise)
    THEN BOOLEAN ELSE {FALSE}

\* Whether a build checks integer overflow is a property of the build (the dev
\* profile does, the release profile does not): both outcomes are followed.
RotatePiece(clockwise) ==
  /\ pc = "api" /\ UNCHANGED pc
  /\ state.current_piece # Nil =>
       RotationInBound(new_rotation(Unwrap(state.current_piece), clockwise))
  /\ \E checks \in OverflowChecks(state, clockwise) :
       Call(rotate_piece(state, clockwise, checks))
  /\ UNCHANGED hold_used

HardDrop ==
  /\ pc = "api" /\ UNCHANGED pc
  /\ \E sh \in ShufflesFor(state) :
       Call(hard_drop(state, sh))
  /\ hold_used' = (hold_used /\ state.current_piece = Nil)

LockCurrentPiece ==
  /\ pc = "api" /\ UNCHANGED pc
  /\ \E sh \in ShufflesFor(state) :
       Call(lock_current_piece(state, sh))
  /\ hold_used' = (hold_used /\ state.current_piece = Nil)

CompleteLineClear ==
  /\ pc = "api" /\ UNCHANGED pc
  /\ \E sh \in ShufflesFor(state) :
     \E checks \in LevelOverflowChecks(state) :
       Call(complete_line_clear(state, sh, checks))
  /\ UNCHANGED hold_used

HoldPiece ==
  /\ pc = "api" /\ UNCHANGED pc
  /\ \E sh \in ShufflesFor(state) :
       /\ Call(hold_piece(state, sh))
       /\ hold_used' = (hold_used \/ state' # state)

Next ==
  \/ SpawnPiece
  \/ MovePiece(-1, 0)
  \/ MovePiece(1, 0)
  \/ MovePiece(0, 1)
  \/ RotatePiece(TRUE)
  \/ RotatePiece(FALSE)
  \/ HardDrop
  \/ LockCurrentPiece
  \/ CompleteLineClear
  \/ HoldPiece

\* The rules engine driven call by call, in any order.
Spec == Init /\ [][Next]_vars

\* ----------------------------------------------------------------- game.rs
\* Game::run.  pc is "start" before the first spawn_piece (game.rs:47), then
\* per iteration of the loop "input" (poll_input and handle_input,
\* game.rs:58-60), "tick" (the line-clear poll or the gravity step,
\* game.rs:62-71) and "check" (render and the game_over test, game.rs:73-88);
\* "over" once the loop is left.
InputMoves == {<<-1, 0>>, <<1, 0>>, <<0, 1>>}

InitRun ==
  /\ \E sh \in RunShuffles : state = GameState_new(Config, sh)
  /\ pc = "start"
  /\ spawned = 0
  /\ hold_used = FALSE
  /\ ret = 0
  /\ written = <<>>
  /\ clock = <<>>

\* self.state.spawn_piece() before the loop.
RunStart ==
  /\ pc = "start"
  /\ \E sh \in ShufflesFor(state) :
       Call(spawn_piece(state, sh))
  /\ pc' = "input"
  /\ UNCHANGED hold_used

\* poll_input returns None.
RunNoInput ==
  /\ pc = "input"
  /\ ~state.panicked
  /\ pc' = "tick"
  /\ UNCHANGED <<state, spawned, hold_used, ret, written, clock>>

\* InputAction::MoveLeft, MoveRight, MoveDown
RunInputMove ==
  /\ pc = "input"
  /\ \E d \in InputMoves :
       Call(move_piece(state, d[1], d[2]))
  /\ pc' = "tick"
  /\ UNCHANGED hold_used

\* InputAction::RotateClockwise, RotateCounterClockwise
RunInputRotate ==
  /\ pc = "input"
  /\ \E clockwise \in BOOLEAN :
       /\ state.current_piece # Nil =>
            RotationInBound(new_rotation(Unwrap(state.current_piece), clockwise))
       /\ \E checks \in OverflowChecks(state, clockwise) :
            Call(rotate_piece(state, clockwise, checks))
  /\ pc' = "tick"
  /\ UNCHANGED hold_used

\* InputAction::HardDrop
RunInputHardDrop ==
  /\ pc = "input"
  /\ \E sh \in ShufflesFor(state) :
       Call(hard_drop(state, sh))
  /\ pc' = "tick"
  /\ hold_used' = (hold_used /\ state.current_piece = Nil)

\* InputAction::Hold
RunInputHold ==
  /\ pc = "input"
  /\ \E sh \in ShufflesFor(state) :
       /\ Call(hold_piece(state, sh))
       /\ hold_used' = (hold_used \/ state' # state)
  /\ pc' = "tick"

\* InputAction::Quit, and InputAction::Pause left by Quit (handle_pause):
\* self.state.game_over = true.
RunInputQuit ==
  /\ pc = "input"
  /\ Call([state EXCEPT !.game_over = TRUE])
  /\ pc' = "tick"
  /\ UNCHANGED hold_used

\* The poll of a pending clear (game.rs:62-65); active is the value of
\* is_line_clear_animation_active().
RunTickClear ==
  /\ pc = "tick"
  /\ state.pending_line_clear
  /\ \E active \in BOOLEAN :
       IF active
         THEN /\ ~state.panicked
              /\ UNCHANGED <<state, spawned, ret, written, clock>>
         ELSE \E sh \in ShufflesFor(state) :
              \E checks \in LevelOverflowChecks(state) :
                Call(complete_line_clear(state, sh, checks))
  /\ pc' = "check"
  /\ UNCHANGED hold_used

\* The gravity step (game.rs:66-71); due is the value of
\* now.duration_since(last_gravity) >= gravity_duration.
RunTickGravity ==
  /\ pc = "tick"
  /\ ~state.pending_line_clear
  /\ \E due \in BOOLEAN :
       IF ~due
         THEN /\ ~state.panicked
              /\ UNCHANGED <<state, spawned, hold_used, ret, written, clock>>
         ELSE IF move_piece_ret(state, 0, 1)
           THEN /\ Call(move_piece(state, 0, 1))
                /\ UNCHANGED hold_used
           ELSE /\ \E sh \in ShufflesFor(state) :
                     Call(lock_current_piece(state, sh))
                /\ hold_used' = (hold_used /\ state.current_piece = Nil)
  /\ pc' = "check"

\* render, then `if self.state.game_over { ... break; }` (game.rs:73-88).
RunCheck ==
  /\ pc = "check"
  /\ ~state.panicked
  /\ pc' = IF state.game_over THEN "over" ELSE "input"
  /\ UNCHANGED <<state, spawned, hold_used, ret, written, clock>>

NextRun ==
  \/ RunStart
  \/ RunNoInput
  \/ RunInputMove
  \/ RunInputRotate
  \/ RunInputHardDrop
  \/ RunInputHold
  \/ RunInputQuit
  \/ RunTickClear
  \/ RunTickGravity
  \/ RunCheck

\* The engine driven by Game::run.
SpecRun == InitRun /\ [][NextRun]_vars

\* ------------------------------------------------- Board::clear_lines alone
\* The rows a board is drawn from: empty, full, and two partly filled ones.
RowPatterns(width) ==
  { EmptyRow(width),
    [x \in 1..width |-> "I"],
    [x \in 1..width |-> IF x = 1 THEN "T" ELSE None],
    [x \in 1..width |-> IF x = width THEN None ELSE "O"] }

\* Every board of the explored size whose rows are among RowPatterns.
InitBoard ==
  /\ \E cells \in [1..BOARD_HEIGHT -> RowPatterns(BOARD_WIDTH)] :
       state = [GameState_new(Config, ShuffleTable[1]) EXCEPT !.board.cells = cells]
  /\ pc = "board"
  /\ spawned = 0
  /\ hold_used = FALSE
  /\ ret = 0
  /\ written = <<>>
  /\ clock = <<>>

\* board.clear_lines()
BoardClearLines ==
  /\ pc = "board"
  /\ state' = [state EXCEPT !.board = clear_lines(state.board).board]
  /\ ret' = clear_lines(state.board).lines
  /\ pc' = "cleared"
  /\ UNCHANGED <<spawned, hold_used, written, clock>>

NextBoard == BoardClearLines

\* Board::clear_lines called once on each of these boards.
SpecBoard == InitBoard /\ [][NextBoard]_vars

\* ------------------------------------------- Board::is_valid_position alone
\* The rows a probed board is drawn from: empty, and every second cell taken.
ProbeRows(width) ==
  { EmptyRow(width),
    [x \in 1..width |-> IF x % 2 = 0 THEN "S" ELSE None] }

\* The rotation counters probed: every orientation, values above 3, usize::MAX.
ProbeRotations == (0..(3 + MaxRotation)) \cup {USIZE_MAX}

\* Every probed board with a piece of every kind at every position from one
\* cell left of (above) the grid to one cell right of (below) it, at every
\* probed rotation counter.
InitProbe ==
  /\ \E cells \in [1..BOARD_HEIGHT -> ProbeRows(BOARD_WIDTH)] :
     \E kind \in TetriminoType :
     \E x \in -1..BOARD_WIDTH :
     \E y \in -1..BOARD_HEIGHT :
     \E rotation \in ProbeRotations :
       state = [GameState_new(Config, ShuffleTable[1]) EXCEPT
                  !.board.cells = cells,
                  !.current_piece =
                     Some([kind |-> kind, x |-> x, y |-> y, rotation |-> rotation])]
  /\ pc = "probe"
  /\ spawned = 0
  /\ hold_used = FALSE
  /\ ret = 0
  /\ written = <<>>
  /\ clock = <<>>

\* board.is_valid_position(&piece): takes &self, so the board is not written.
\* ret is 1 for true and 0 for false.
ProbeIsValidPosition ==
  /\ pc = "probe"
  /\ ret' = (IF is_valid_position(state.board, Unwrap(state.current_piece))
               THEN 1 ELSE 0)
  /\ pc' = "probed"
  /\ UNCHANGED <<state, spawned, hold_used, written, clock>>

\* Renderer::calculate_ghost_y(&state): the state is only read; ret is the
\* row returned.
ProbeGhost ==
  /\ pc = "probe"
  /\ ret' = calculate_ghost_y(state)
  /\ pc' = "ghost"
  /\ UNCHANGED <<state, spawned, hold_used, written, clock>>

NextProbe ==
  \/ ProbeIsValidPosition
  \/ ProbeGhost

\* Board::is_valid_position, and the ghost search built on it, called once on
\* each of these boards and pieces.
SpecProbe == InitProbe /\ [][NextProbe]_vars

\* --------------------------------------------- scoring and leveling alone
\* The configurations scored: lines_per_level 1, 3, 4 and the default, the
\* default starting level and the next one, fixed and variable goal.
ScoreConfigs ==
  { [Config EXCEPT !.lines_per_level = lpl,
                   !.starting_level = lvl,
                   !.enable_variable_goal = vg] :
      lpl \in {1, 3, 4, DEFAULT_LINES_PER_LEVEL},
      lvl \in {DEFAULT_STARTING_LEVEL, DEFAULT_STARTING_LEVEL + 1},
      vg \in BOOLEAN }

\* The state after GameState::new under each of these configurations.
InitScore ==
  /\ \E config \in ScoreConfigs : state = GameState_new(config, ShuffleTable[1])
  /\ pc = "score"
  /\ spawned = 0
  /\ hold_used = FALSE
  /\ ret = 0
  /\ written = <<>>
  /\ clock = <<>>

\* What lock_current_piece does to the counters (game_state.rs:173-188).  The
\* board is left out: full is whether the lock filled a row.
score_lock(s, full) ==
  LET s1 == [s EXCEPT !.pieces_placed = s.pieces_placed + 1] IN
  IF full
    THEN [s1 EXCEPT !.pending_line_clear = TRUE]
    ELSE update_score(s1, 0, FALSE)

\* What complete_line_clear does to the counters (game_state.rs:195-203).
\* lines is the value board.clear_lines() returns.
score_complete(s, lines, checks) ==
  LET s1 == [s EXCEPT !.pending_line_clear = FALSE,
                      !.lines_cleared = s.lines_cleared + lines]
  IN IF lines > 0 THEN update_score(s1, lines, checks) ELSE s1

\* The builds that differ on a completion: both where the level update
\* underflows.
ScoreOverflowChecks(s, lines) ==
  IF /\ ~s.config.enable_variable_goal
     /\ lines > 0
     /\ FixedGoalUnderflows(s, lines)
    THEN BOOLEAN ELSE {FALSE}

\* A lock; each lock without a full row and each completion spawns a piece.
ScoreLock(full) ==
  /\ pc = "score" /\ UNCHANGED pc
  /\ ~state.panicked
  /\ ~state.pending_line_clear
  /\ state' = score_lock(state, full)
  /\ spawned' = spawned + (IF full THEN 0 ELSE 1)
  /\ spawned' <= MaxScoreCalls
  /\ UNCHANGED <<hold_used, ret, written, clock>>

\* A completion of a pending clear that removes 0..4 rows.
ScoreComplete ==
  /\ pc = "score" /\ UNCHANGED pc
  /\ ~state.panicked
  /\ state.pending_line_clear
  /\ \E lines \in 0..4 :
     \E checks \in ScoreOverflowChecks(state, lines) :
       state' = score_complete(state, lines, checks)
  /\ spawned' = spawned + 1
  /\ spawned' <= MaxScoreCalls
  /\ UNCHANGED <<hold_used, ret, written, clock>>

NextScore ==
  \/ ScoreLock(TRUE)
  \/ ScoreLock(FALSE)
  \/ ScoreComplete

\* The counters of GameState under any sequence of locks and clears.
SpecScore == InitScore /\ [][NextScore]_vars

\* ------------------------------------------------- the bag and the queue
\* The configured preview counts explored: 0, the legal 1..6, and 7.
BagPreviewCounts == 0..7

\* The shuffle outcomes a refill of the bag is drawn from.
BagShuffles == {ShuffleTable[i] : i \in 1..Len(ShuffleTable)}

\* The state after GameState::new for each preview count and first shuffle.
InitBag ==
  /\ \E preview_count \in BagPreviewCounts :
     \E sh \in BagShuffles :
       state = GameState_new([Config EXCEPT !.preview_count = preview_count], sh)
  /\ pc = "bag"
  /\ spawned = 0
  /\ hold_used = FALSE
  /\ ret = 0
  /\ written = <<>>
  /\ clock = <<>>

\* spawn_piece(); the shuffle is drawn only when the call refills the bag.
BagSpawnPiece ==
  /\ pc = "bag" /\ UNCHANGED pc
  /\ \E sh \in (IF state.bag = <<>> THEN BagShuffles ELSE {ShuffleTable[1]}) :
       state' = spawn_piece(state, sh)
  /\ spawned' = spawned + 1
  /\ spawned' <= MaxBagSpawns
  /\ UNCHANGED <<hold_used, ret, written, clock>>

NextBag == BagSpawnPiece

\* Successive spawn_piece calls on a fresh game.
SpecBag == InitBag /\ [][NextBag]_vars

\* --------------------------------- the engine under other preview counts
\* The configured preview counts explored: below the range, the default, and
\* above the range.
QueuePreviewCounts == {0, DEFAULT_PREVIEW_COUNT, 7}

\* The state after GameState::new for each of these preview counts.
InitQueue ==
  /\ \E preview_count \in QueuePreviewCounts :
     \E sh \in Shuffles :
       state = GameState_new([Config EXCEPT !.preview_count = preview_count], sh)
  /\ pc = "api"
  /\ spawned = 0
  /\ hold_used = FALSE
  /\ ret = 0
  /\ written = <<>>
  /\ clock = <<>>

\* The rules engine driven call by call, under each of these preview counts.
SpecQueue == InitQueue /\ [][Next]_vars

\* ------------------------------------------ the engine with hold disabled
\* The state after GameState::new with hold enabled and with hold disabled.
InitHold ==
  /\ \E enable_hold \in BOOLEAN :
     \E sh \in Shuffles :
       state = GameState_new([Config EXCEPT !.enable_hold = enable_hold], sh)
  /\ pc = "api"
  /\ spawned = 0
  /\ hold_used = FALSE
  /\ ret = 0
  /\ written = <<>>
  /\ clock = <<>>

\* The rules engine driven call by call, with hold enabled and disabled.
SpecHold == InitHold /\ [][Next]_vars

\* ------------------------------------------- Board::lock_tetromino alone
\* The pieces handed to lock_tetromino: every kind, every rotation state, and
\* every position from one column or row outside the grid to one outside on
\* the other side.
LockPieces ==
  { [kind |-> kind, x |-> x, y |-> y, rotation |-> rotation] :
      kind \in TetriminoType, x \in -1..BOARD_WIDTH, y \in -1..BOARD_HEIGHT,
      rotation \in 0..3 }

\* The number of cells covered by the locks so far.
LockedCells ==
  Cardinality({c \in (1..BOARD_WIDTH) \X (1..BOARD_HEIGHT) :
                 written[c[2]][c[1]] # None})

\* Board::new (board.rs:10-16); no piece has been handed to the board yet.
InitLock ==
  /\ state = [GameState_new(Config, ShuffleTable[1]) EXCEPT !.current_piece = Nil]
  /\ pc = "lock"
  /\ spawned = 0
  /\ hold_used = FALSE
  /\ ret = 0
  /\ written = [y \in 1..BOARD_HEIGHT |-> [x \in 1..BOARD_WIDTH |-> None]]
  /\ clock = <<>>

\* board.lock_tetromino(&t) for a piece t at a valid position; t stays with
\* the caller (kept in current_piece).
BoardLock ==
  /\ pc = "lock"
  /\ LockedCells + 4 <= MaxLockedCells
  /\ \E t \in LockPieces :
       /\ is_valid_position(state.board, t)
       /\ state' = [state EXCEPT !.board = lock_tetromino(state.board, t),
                                 !.current_piece = Some(t)]
       /\ written' = [y \in 1..BOARD_HEIGHT |->
                       [x \in 1..BOARD_WIDTH |->
                         IF \E i \in 1..4 : AbsBlock(t, i) = <<x - 1, y - 1>>
                           THEN t.kind ELSE written[y][x]]]
  /\ UNCHANGED <<pc, spawned, hold_used, ret, clock>>

NextLock == BoardLock

\* A fresh board and any sequence of locks at valid positions.
SpecLock == InitLock /\ [][NextLock]_vars

\* ------------------------------------------------- the timing of Game::run
\* Game::run with its clock and with the board left out: a lock finds 0..4
\* full rows, and a piece that spawns may or may not fit.

\* What lock_current_piece does apart from the board (game_state.rs:169-189);
\* n is the number of rows get_full_lines finds, blocked whether the spawned
\* piece fails is_valid_position.
clock_lock(s, n, sh, blocked) ==
  IF s.current_piece = Nil THEN s
  ELSE
    LET s1 == [s EXCEPT !.current_piece = Nil,
                        !.pieces_placed = s.pieces_placed + 1]
    IN IF n > 0
         THEN [s1 EXCEPT !.line_clear_animation =
                           Some([cleared_rows |-> [i \in 1..n |-> s.board.height - n + i - 1],
                                 total_lines |-> n]),
                         !.pending_line_clear = TRUE]
         ELSE LET s2 == spawn_piece(update_score(s1, 0, FALSE), sh)
              IN [s2 EXCEPT !.game_over = s2.game_over \/ blocked]

\* The end of complete_line_clear (game_state.rs:204-205), s1 being the
\* state score_complete leaves: the marker is dropped and a piece spawned.
clock_finish(s1, sh, blocked) ==
  IF s1.panicked THEN s1
  ELSE LET s2 == spawn_piece([s1 EXCEPT !.line_clear_animation = Nil], sh)
       IN [s2 EXCEPT !.game_over = s2.game_over \/ blocked]

\* The values clear_lines can return for a marker of n rows: n, or 0 when the
\* only full row is row 0.
ClearedFor(s) ==
  LET n == Unwrap(s.line_clear_animation).total_lines IN
  IF n = 1 THEN {0, 1} ELSE {n}

\* The line counts a lock can find while locks remain in the explored run.
LockLines(s) == IF s.pieces_placed < MaxClockLocks THEN 0..4 ELSE {}

\* The configurations timed: the default, and a level of 4 lines.
ClockConfigs ==
  { [Config EXCEPT !.lines_per_level = lpl] : lpl \in {4, DEFAULT_LINES_PER_LEVEL} }

\* GameState::new; the locals of run do not exist yet.
InitClock ==
  /\ \E config \in ClockConfigs : state = GameState_new(config, ShuffleTable[1])
  /\ pc = "start"
  /\ spawned = 0
  /\ hold_used = FALSE
  /\ ret = 0
  /\ written = <<>>
  /\ clock = [gravity_duration |-> 0, since_gravity |-> 0, anim_elapsed |-> 0]

\* A step of the loop that changes the engine state to s2.
ClockCall(s2) ==
  /\ ~state.panicked
  /\ state' = s2
  /\ spawned' = spawned + Spawns(state, s2)
  /\ UNCHANGED <<hold_used, ret, written>>

\* spawn_piece, last_gravity = now, gravity_duration = get_gravity_duration()
\* (game.rs:47-51).
ClockStart ==
  /\ pc = "start"
  /\ ClockCall(spawn_piece(state, ShuffleTable[1]))
  /\ clock' = [gravity_duration |-> get_gravity_duration(state.level),
               since_gravity |-> 0,
               anim_elapsed |-> 0]
  /\ pc' = "input"

\* poll_input returns None or an action that leaves the counters alone.
ClockNoInput ==
  /\ pc = "input"
  /\ ~state.panicked
  /\ pc' = "tick"
  /\ UNCHANGED <<state, spawned, hold_used, ret, written, clock>>

\* InputAction::HardDrop: the lock of the current piece, if there is one.
ClockInputHardDrop ==
  /\ pc = "input"
  /\ state.current_piece # Nil
  /\ \E n \in LockLines(state) :
     \E sh \in ShufflesFor(state) :
     \E blocked \in BOOLEAN :
     \E s2 \in {clock_lock(state, n, sh, blocked)} :
       ClockCall(s2)
  /\ clock' = [clock EXCEPT !.anim_elapsed = 0]
  /\ pc' = "tick"

\* InputAction::Quit: self.state.game_over = true.
ClockInputQuit ==
  /\ pc = "input"
  /\ ClockCall([state EXCEPT !.game_over = TRUE])
  /\ pc' = "tick"
  /\ UNCHANGED clock

\* The poll of a pending clear (game.rs:62-65).
ClockTickClear ==
  /\ pc = "tick"
  /\ state.pending_line_clear
  /\ IF is_line_clear_animation_active(state, clock.anim_elapsed)
       THEN /\ ~state.panicked
            /\ UNCHANGED <<state, spawned, hold_used, ret, written>>
       ELSE \E lines \in ClearedFor(state) :
            \E sh \in ShufflesFor(state) :
            \E blocked \in BOOLEAN :
            \E checks \in ScoreOverflowChecks(state, lines) :
            \E s1 \in {score_complete(state, lines, checks)} :
            \E s2 \in {clock_finish(s1, sh, blocked)} :
              ClockCall(s2)
  /\ pc' = "check"
  /\ UNCHANGED clock

\* The gravity step (game.rs:66-71): when the interval has passed the piece
\* moves down or, if it cannot, is locked, and last_gravity = now.
ClockTickGravity ==
  /\ pc = "tick"
  /\ ~state.pending_line_clear
  /\ IF clock.since_gravity >= clock.gravity_duration
       THEN /\ \/ /\ ~state.panicked
                  /\ UNCHANGED <<state, spawned, hold_used, ret, written>>
               \/ /\ state.current_piece # Nil
                  /\ \E n \in LockLines(state) :
                     \E sh \in ShufflesFor(state) :
                     \E blocked \in BOOLEAN :
                     \E s2 \in {clock_lock(state, n, sh, blocked)} :
                       ClockCall(s2)
            /\ clock' = [clock EXCEPT !.since_gravity = 0, !.anim_elapsed = 0]
       ELSE /\ ~state.panicked
            /\ UNCHANGED <<state, spawned, hold_used, ret, written, clock>>
  /\ pc' = "check"

\* `if self.state.game_over { ... break; }` (game.rs:75-88).
ClockCheckOver ==
  /\ pc = "check"
  /\ ~state.panicked
  /\ state.game_over
  /\ pc' = "over"
  /\ UNCHANGED <<state, spawned, hold_used, ret, written, clock>>

\* The end of an iteration and `now = Instant::now()` of the next one
\* (game.rs:55, 90-94): d ms have passed since the last reading.
ClockSleep(d) ==
  /\ pc = "check"
  /\ ~state.panicked
  /\ ~state.game_over
  /\ clock' = [clock EXCEPT
                 !.since_gravity = Min(clock.since_gravity + d, clock.gravity_duration),
                 !.anim_elapsed =
                   IF state.line_clear_animation = Nil THEN 0
                   ELSE Min(clock.anim_elapsed + d,
                            Unwrap(state.line_clear_animation).total_lines * 500)]
  /\ pc' = "input"
  /\ UNCHANGED <<state, spawned, hold_used, ret, written>>

NextClock ==
  \/ ClockStart
  \/ ClockNoInput
  \/ ClockInputHardDrop
  \/ ClockInputQuit
  \/ ClockTickClear
  \/ ClockTickGravity
  \/ ClockCheckOver
  \/ ClockSleep(0)
  \/ ClockSleep(TimeStep)
  \/ ClockSleep(2 * TimeStep)

\* Game::run with time.
SpecClock == InitClock /\ [][NextClock]_vars

\* Game::run as long as the loop keeps running and its clock keeps advancing.
SpecClockLive ==
  /\ SpecClock
  /\ WF_vars(NextClock)
  /\ SF_vars(ClockSleep(TimeStep))

\* ------------------------------------------------------------ properties
\* The current piece of a state that has one.
Cur == Unwrap(state.current_piece)

\* A piece's 4 cells are all inside the grid of b and all empty.
CellsFree(b, t) ==
  \A i \in 1..4 :
    LET c == AbsBlock(t, i) IN
    /\ c[1] >= 0 /\ c[1] < b.width /\ c[2] >= 0 /\ c[2] < b.height
    /\ b.cells[c[2] + 1][c[1] + 1] = None

\* The rows of a grid that have no empty cell.
FullRowSet(cells) ==
  {y \in 0..(Len(cells) - 1) : \A x \in 1..Len(cells[y + 1]) : cells[y + 1][x] # None}

\* seq lists exactly the members of S in ascending order.
AscendingListOf(seq, S) ==
  /\ Len(seq) = Cardinality(S)
  /\ \A i \in 1..Len(seq) : seq[i] \in S
  /\ \A i \in 1..Len(seq) : \A j \in 1..Len(seq) : i < j => seq[i] < seq[j]

\* The grid with the 4 cells of piece t set to its kind.
WithPiece(b, t) ==
  [y \in 1..b.height |->
    [x \in 1..b.width |->
      IF \E i \in 1..4 : AbsBlock(t, i) = <<x - 1, y - 1>>
        THEN t.kind ELSE b.cells[y][x]]]

\* C1: whenever lock_current_piece or hard_drop locks a piece, the cells it
\* writes were all in bounds and empty on the board just before the write.
C1_LockWritesValidatedCells ==
  [][/\ (LockCurrentPiece /\ state.current_piece # Nil)
          => CellsFree(state.board, Cur)
     /\ (HardDrop /\ state.current_piece # Nil)
          => CellsFree(state.board, Unwrap(DropLoop(state).current_piece))]_vars

\* C2: clear_lines returns the number of rows that were full before the call,
\* and afterwards the board has no full row.
C2_ClearLinesRemovesAllFullRows ==
  [][BoardClearLines =>
       /\ ret' = Cardinality(FullRowSet(state.board.cells))
       /\ get_full_lines(state'.board) = <<>>]_vars

\* C3: lock_current_piece on an existing piece counts the piece and then
\* either (a) rows are full: no row is removed, there is no current piece
\* and no spawn, and the marker holds the full rows ascending and their
\* count; or (b) no row is full: no marker is set and the next piece is
\* spawned.
C3_LockOutcome ==
  (state.current_piece # Nil /\ ~state.panicked) =>
    \A sh \in ShufflesFor(state) :
      LET s2 == lock_current_piece(state, sh)
          locked == WithPiece(state.board, Cur)
          full == FullRowSet(locked)
      IN
      /\ s2.pieces_placed = state.pieces_placed + 1
      /\ s2.board.cells = locked
      /\ IF full # {}
           THEN /\ s2.current_piece = Nil
                /\ s2.next_pieces = state.next_pieces
                /\ s2.bag = state.bag
                /\ s2.pending_line_clear
                /\ s2.line_clear_animation # Nil
                /\ AscendingListOf(Unwrap(s2.line_clear_animation).cleared_rows, full)
                /\ Unwrap(s2.line_clear_animation).total_lines = Cardinality(full)
           ELSE /\ ~s2.pending_line_clear
                /\ s2.line_clear_animation = Nil
                /\ s2.current_piece = Some(Tetrimino_new(Head(state.next_pieces)))
                /\ Tail(state.next_pieces) = SubSeq(s2.next_pieces, 1, Len(state.next_pieces) - 1)

\* C3 witness: a lock has left full rows on the board: the marker is set,
\* nothing was removed and nothing was spawned.
C3_Witness ==
  /\ state.pending_line_clear
  /\ state.line_clear_animation # Nil
  /\ state.current_piece = Nil
  /\ state.pieces_placed >= 1
  /\ FullRowSet(state.board.cells) # {}

\* C4: complete_line_clear on a pending clear adds the marker's total_lines
\* to lines_cleared, scores and levels for that number, clears the pending
\* flag and the marker, leaves no full row on the board and spawns the next
\* piece.
C4_CompleteLineClear ==
  (state.pending_line_clear /\ state.line_clear_animation # Nil /\ ~state.panicked) =>
    \A sh \in ShufflesFor(state) :
    \A checks \in LevelOverflowChecks(state) :
      LET s2 == complete_line_clear(state, sh, checks)
          n == Unwrap(state.line_clear_animation).total_lines
          scored == update_score(state, n, checks)
      IN
      /\ s2.lines_cleared = state.lines_cleared + n
      /\ s2.score = scored.score
      /\ s2.level = scored.level
      /\ s2.lines_until_next_level = scored.lines_until_next_level
      /\ ~s2.pending_line_clear
      /\ s2.line_clear_animation = Nil
      /\ FullRowSet(s2.board.cells) = {}
      /\ s2.current_piece = Some(Tetrimino_new(Head(state.next_pieces)))

\* C5: hold is usable at most once per piece life: once hold_piece has
\* changed the pieces, another hold_piece before any lock changes nothing.
C5_HoldOncePerPiece ==
  (hold_used /\ ~state.panicked) =>
    \A sh \in ShufflesFor(state) : hold_piece(state, sh) = state

\* C6: game_over is absorbing in Game::run: once it is true it stays true
\* and no later step of the loop changes the board, the current piece,
\* pieces_placed, the score, the held piece or the next queue.
C6_GameOverAbsorbing ==
  [][state.game_over =>
       /\ state'.game_over
       /\ state'.board = state.board
       /\ state'.current_piece = state.current_piece
       /\ state'.pieces_placed = state.pieces_placed
       /\ state'.score = state.score
       /\ state'.held_piece = state.held_piece
       /\ state'.next_pieces = state.next_pieces]_vars

\* spawn_piece on the empty 10x20 board of a new game does not set game_over,
\* whichever of the 7 kinds heads the queue.
SpawnOnEmptyDefaultBoard ==
  \A kind \in TetriminoType :
    \A sh \in Shuffles :
      LET config == [Config EXCEPT !.board_width = 10, !.board_height = 20]
          s0 == GameState_new(config, sh)
          s1 == [s0 EXCEPT !.next_pieces = <<kind>> \o Tail(s0.next_pieces)]
      IN ~spawn_piece(s1, sh).game_over

\* C7: spawn_piece makes the head of the queue current at (0, 0), rotation 0,
\* and sets game_over exactly when that piece has a cell out of bounds or
\* occupied; on an empty 10x20 board it sets it for none of the 7 kinds.
C7_SpawnSetsGameOverIffBlocked ==
  /\ (~state.panicked /\ state.next_pieces # <<>>) =>
       \A sh \in ShufflesFor(state) :
         LET s2 == spawn_piece(state, sh)
             fresh == [kind |-> Head(state.next_pieces), x |-> 0, y |-> 0, rotation |-> 0]
         IN /\ s2.current_piece = Some(fresh)
            /\ s2.game_over = (state.game_over \/ ~CellsFree(state.board, fresh))
  /\ SpawnOnEmptyDefaultBoard

\* C7 witness: spawn_piece has put a piece on occupied cells and set game_over.
C7_Witness ==
  /\ state.game_over
  /\ state.current_piece # Nil
  /\ Cur.x = 0 /\ Cur.y = 0 /\ Cur.rotation = 0
  /\ ~CellsFree(state.board, Cur)

\* C8: after a successful rotate_piece the stored rotation is (old + 1) mod 4
\* clockwise and (old - 1) mod 4 counter-clockwise, so the stored rotation is
\* always one of 0, 1, 2, 3.
C8_RotationStoredMod4 ==
  (state.current_piece # Nil /\ ~state.panicked) =>
    /\ Cur.rotation \in 0..3
    /\ \A clockwise \in BOOLEAN :
         \A checks \in OverflowChecks(state, clockwise) :
           LET s2 == rotate_piece(state, clockwise, checks) IN
           (s2 # state /\ ~s2.panicked) =>
             Unwrap(s2.current_piece).rotation
               = (Cur.rotation + (IF clockwise THEN 1 ELSE 0 - 1)) % 4

\* The rotation of the current piece has no legal position: the rotated
\* piece is blocked in place and under every offset of its kick list.
NoLegalRotation(s, clockwise) ==
  LET t == Unwrap(s.current_piece)
      nr == new_rotation(t, clockwise)
      kicks == get_wall_kicks(t.kind, t.rotation, nr)
  IN /\ ~CellsFree(s.board, [t EXCEPT !.rotation = nr])
     /\ \A i \in 1..Len(kicks) :
          ~CellsFree(s.board, [kind |-> t.kind, x |-> t.x + kicks[i][1],
                               y |-> t.y + kicks[i][2], rotation |-> nr])

\* C9: a rotation that cannot be made legal changes nothing: after
\* rotate_piece the piece's x, y and rotation and the rest of the game state
\* are what they were before the call.
C9_FailedRotationChangesNothing ==
  (state.current_piece # Nil /\ ~state.panicked) =>
    \A clockwise \in BOOLEAN :
      NoLegalRotation(state, clockwise) =>
        \A checks \in OverflowChecks(state, clockwise) :
          rotate_piece(state, clockwise, checks) = state

\* The kick offsets of a rotation of the current piece whose basic rotation
\* is blocked: index i is the first one whose position is free.
FirstFreeKick(s, clockwise, i) ==
  LET t == Unwrap(s.current_piece)
      nr == new_rotation(t, clockwise)
      kicks == get_wall_kicks(t.kind, t.rotation, nr)
  IN /\ ~CellsFree(s.board, [t EXCEPT !.rotation = nr])
     /\ i \in 1..Len(kicks)
     /\ CellsFree(s.board, [kind |-> t.kind, x |-> t.x + kicks[i][1],
                            y |-> t.y + kicks[i][2], rotation |-> nr])
     /\ \A j \in 1..(i - 1) :
          ~CellsFree(s.board, [kind |-> t.kind, x |-> t.x + kicks[j][1],
                               y |-> t.y + kicks[j][2], rotation |-> nr])

\* The 8 transitions between neighbouring orientations.
TabulatedTransitions ==
  {<<f, t>> \in (0..3) \X (0..3) : t = (f + 1) % 4 \/ f = (t + 1) % 4}

\* The shape of the kick lists: 5 entries per I transition, 4 per transition
\* of T, S, Z, J and L, one for O and for a transition that is not tabulated;
\* the first entry is (0, 0).
KickListShape ==
  \A kind \in TetriminoType :
    \A f \in 0..3 :
      \A t \in 0..3 :
        LET kicks == get_wall_kicks(kind, f, t) IN
        /\ kicks[1] = <<0, 0>>
        /\ Len(kicks) =
             IF kind = "O" \/ <<f, t>> \notin TabulatedTransitions THEN 1
             ELSE IF kind = "I" THEN 5 ELSE 4

\* C10: wall kicks are tried in table order and the first valid one is
\* committed: the offset is added to the pre-rotation (x, y) and the new
\* rotation is kept.  The list has 5 entries per I transition, 4 per
\* transition of T, S, Z, J and L, only (0, 0) for O and for a transition
\* that is not tabulated, and its first entry is always (0, 0).
C10_FirstValidKickCommitted ==
  /\ (state.current_piece # Nil /\ ~state.panicked) =>
       \A clockwise \in BOOLEAN :
         \A checks \in OverflowChecks(state, clockwise) :
           \A i \in 1..5 :
             FirstFreeKick(state, clockwise, i) =>
               LET nr == new_rotation(Cur, clockwise)
                   k == get_wall_kicks(Cur.kind, Cur.rotation, nr)[i]
                   s2 == rotate_piece(state, clockwise, checks)
               IN /\ s2.current_piece =
                       Some([kind |-> Cur.kind, x |-> Cur.x + k[1],
                             y |-> Cur.y + k[2], rotation |-> nr])
                  /\ s2 = [state EXCEPT !.current_piece = s2.current_piece]
  /\ KickListShape

\* The translations tried on each reachable state: every (dx, dy) of one step
\* or none on each axis (Game moves by (-1,0), (1,0) and (0,1)).
MoveDeltas == (-1..1) \X (-1..1)

\* C11: move_piece(dx, dy) commits or leaves no trace.  When the translated
\* position has its 4 cells in the grid and empty, the piece's x and y change
\* by exactly (dx, dy), its rotation and kind are unchanged and the call
\* returns true; otherwise the piece is exactly as before and the call returns
\* false; with no current piece it returns false.  Every other field (board,
\* score, queue, held piece, ...) is unchanged in every case.
C11_MoveCommitsOrLeavesNoTrace ==
  ~state.panicked =>
    \A d \in MoveDeltas :
      LET s2 == move_piece(state, d[1], d[2])
          r == move_piece_ret(state, d[1], d[2])
      IN
      /\ s2 = [state EXCEPT !.current_piece = s2.current_piece]
      /\ IF state.current_piece = Nil
           THEN ~r /\ s2.current_piece = Nil
           ELSE LET t == [kind |-> Cur.kind, x |-> Cur.x + d[1],
                          y |-> Cur.y + d[2], rotation |-> Cur.rotation]
                IN IF CellsFree(state.board, t)
                     THEN r /\ s2.current_piece = Some(t)
                     ELSE ~r /\ s2.current_piece = state.current_piece

\* A piece that has been moved below the spawn row and now has one translation
\* open (to the right) and one refused (downwards).
C11_Witness ==
  /\ ~state.panicked
  /\ state.current_piece # Nil
  /\ Cur.y > 0
  /\ move_piece(state, 1, 0) # state
  /\ move_piece(state, 0, 1) = state

\* C12: is_valid_position(piece) is true if and only if every one of the
\* piece's 4 absolute cells lies in [0, width) x [0, height) and is empty, for
\* every kind, every x and y (negative ones included) and every rotation
\* counter (taken mod 4); the call leaves the board as it was.
C12_ValidIffCellsFree ==
  pc = "probed" =>
    /\ (ret = 1) <=> CellsFree(state.board, Cur)
    /\ ret \in {0, 1}

\* A probed piece with a negative coordinate and a rotation counter above 3
\* that is valid on a board holding occupied cells.
C12_Witness ==
  /\ pc = "probed"
  /\ ret = 1
  /\ Cur.x < 0
  /\ Cur.rotation > 3
  /\ \E y \in 1..state.board.height : state.board.cells[y][2] # None

\* The base score of a clear of n lines.
LineBase(n) == <<100, 300, 500, 800>>[n]

\* C13: a completion that clears n lines (n in 1..4) adds exactly
\* (base(n) + 50 * combo_count before the clear + back-to-back bonus) * level
\* to score, with base 100 / 300 / 500 / 800, no T-spin bonus, the
\* back-to-back bonus 400 for a 4-line clear made while the flag is set and 0
\* otherwise, and level the level before any level-up of this clear; at level
\* 1 with no combo and no back-to-back the deltas are exactly 100 / 300 / 500 /
\* 800.
C13_ClearScoreDelta ==
  (pc = "score" /\ state.pending_line_clear /\ ~state.panicked) =>
    \A n \in 1..4 :
    \A checks \in ScoreOverflowChecks(state, n) :
      LET s2 == score_complete(state, n, checks)
          b2b == IF state.back_to_back_active /\ n = 4 THEN 400 ELSE 0
      IN
      /\ s2.score = state.score
                    + (LineBase(n) + 50 * state.combo_count + b2b) * state.level
      /\ (state.level = 1 /\ state.combo_count = 0 /\ ~state.back_to_back_active)
           => s2.score - state.score = LineBase(n)

\* Two 4-line clears in a row at level 1 have been scored: 800, then
\* 800 + 50 + 400.
C13_Witness ==
  /\ pc = "score"
  /\ state.level = 1
  /\ state.combo_count = 2
  /\ state.back_to_back_active
  /\ state.lines_cleared = 8
  /\ state.score = 2050

\* The combo bonus paid by the completion that led from s to s2 with n lines:
\* what is left of the score delta per level after the base score and the
\* back-to-back bonus.
ComboBonusPaid(s, s2, n) ==
  (s2.score - s.score) \div s.level
    - LineBase(n) - (IF s.back_to_back_active /\ n = 4 THEN 400 ELSE 0)

\* C14: every lock that completes no line resets combo_count to 0 and leaves
\* score and level unchanged; every completion that clears at least one line
\* raises combo_count by exactly 1 and pays a combo bonus of 50 * combo_count
\* before the increment, so the second of two consecutive clearing locks earns
\* a strictly larger combo bonus than the first.
C14_ComboCount ==
  (pc = "score" /\ ~state.panicked) =>
    IF ~state.pending_line_clear
      THEN LET s2 == score_lock(state, FALSE) IN
           /\ s2.combo_count = 0
           /\ s2.score = state.score
           /\ s2.level = state.level
      ELSE \A n \in 1..4 :
           \A checks \in ScoreOverflowChecks(state, n) :
             LET s2 == score_complete(state, n, checks) IN
             /\ s2.combo_count = state.combo_count + 1
             /\ ComboBonusPaid(state, s2, n) = 50 * state.combo_count
             /\ ~s2.panicked =>
                  \A n2 \in 1..4 :
                  \A checks2 \in ScoreOverflowChecks(score_lock(s2, TRUE), n2) :
                    LET s3 == score_lock(s2, TRUE)
                        s4 == score_complete(s3, n2, checks2)
                    IN ComboBonusPaid(s3, s4, n2) > ComboBonusPaid(state, s2, n)

\* A combo of two clears has been broken by a lock that completed no line:
\* the score shows both clears, the combo count is back to 0.
C14_Witness ==
  /\ pc = "score"
  /\ ~state.pending_line_clear
  /\ state.combo_count = 0
  /\ state.pieces_placed = 3
  /\ state.lines_cleared = 2
  /\ state.level = 1
  /\ state.score = 250

\* The back-to-back bonus paid by the completion that led from s to s2 with n
\* lines: what is left of the score delta per level after the base score and
\* the combo bonus.
BackToBackBonusPaid(s, s2, n) ==
  (s2.score - s.score) \div s.level - LineBase(n) - 50 * s.combo_count

\* The state one lock without a full row later, or the same state.
AfterIdleLocks(s) == {s, score_lock(s, FALSE)}

\* C15: a 4-line clear earns a back-to-back bonus of half its base (400 *
\* level) if and only if the most recent previous line clear was also a 4-line
\* clear (a clear of 1..3 lines in between cancels it, a lock without a clear
\* does not); no other clear earns one; and back_to_back_active after every
\* clear equals whether that clear was a 4-line clear.
C15_BackToBack ==
  (pc = "score" /\ state.pending_line_clear /\ ~state.panicked) =>
    \A n \in 1..4 :
    \A checks \in ScoreOverflowChecks(state, n) :
      LET s2 == score_complete(state, n, checks) IN
      /\ s2.back_to_back_active = (n = 4)
      /\ ~s2.panicked =>
           \A s3 \in AfterIdleLocks(s2) :
           \A n2 \in 1..4 :
           \A checks2 \in ScoreOverflowChecks(score_lock(s3, TRUE), n2) :
             LET s4 == score_lock(s3, TRUE)
                 s5 == score_complete(s4, n2, checks2)
             IN BackToBackBonusPaid(s4, s5, n2)
                  = (IF n = 4 /\ n2 = 4 THEN 400 ELSE 0)

\* A 4-line clear, then a 1-line clear, then a 4-line clear at level 1: the
\* last one is paid 800 + 2 * 50 and no back-to-back bonus, and sets the flag.
C15_Witness ==
  /\ pc = "score"
  /\ state.level = 1
  /\ state.lines_cleared = 9
  /\ state.combo_count = 3
  /\ state.back_to_back_active
  /\ state.score = 800 + 150 + 900

\* The u32 held as the integer h has the value v.
U32Is(h, v) == h = v /\ h >= 0

\* C16: under the fixed goal, a completion that clears n lines with
\* n < lines_until_next_level decreases the counter by n and leaves the level
\* unchanged; otherwise the level increases by exactly 1 and the counter
\* becomes lines_per_level minus the overflow n - (old counter).
C16_FixedGoalLeveling ==
  (/\ pc = "score"
   /\ state.pending_line_clear
   /\ ~state.panicked
   /\ ~state.config.enable_variable_goal) =>
    \A n \in 1..4 :
    \A checks \in ScoreOverflowChecks(state, n) :
      LET s2 == score_complete(state, n, checks)
          old == state.lines_until_next_level
      IN
      /\ ~s2.panicked
      /\ IF ~U32Ge(n, old)
           THEN /\ s2.lines_until_next_level = old - n
                /\ s2.level = state.level
           ELSE /\ U32Is(s2.lines_until_next_level,
                         state.config.lines_per_level - (n - old))
                /\ s2.level = state.level + 1

\* C17: under the variable goal, after every level-up the new
\* lines_until_next_level, after the overflow is subtracted, is at least 1.
C17_VariableGoalPositive ==
  (/\ pc = "score"
   /\ state.pending_line_clear
   /\ ~state.panicked
   /\ state.config.enable_variable_goal) =>
    \A n \in 1..4 :
      LET s2 == score_complete(state, n, FALSE) IN
      s2.level = state.level + 1 => s2.lines_until_next_level >= 1

\* C18: the kinds drawn from the bag into the next queue, cut into consecutive
\* blocks of 7 from the first draw, have each of the 7 kinds exactly once in
\* every block (the unfinished last block has no kind twice), for every
\* shuffle outcome and every preview_count; the queue is the end of that
\* sequence and the k-th spawn_piece call produced its k-th kind.
C18_BagFairness ==
  pc = "bag" =>
    LET d == state.drawn
        full == Len(d) \div 7
    IN
    /\ \A k \in 0..(full - 1) : {d[7 * k + i] : i \in 1..7} = TetriminoType
    /\ \A i \in (7 * full + 1)..Len(d) :
       \A j \in (7 * full + 1)..Len(d) : d[i] = d[j] => i = j
    /\ Len(d) = spawned + Len(state.next_pieces)
    /\ SubSeq(d, spawned + 1, Len(d)) = state.next_pieces
    /\ spawned > 0 => state.current_piece # Nil /\ Cur.kind = d[spawned]

\* Spawns have crossed two refills of the bag: more than 14 kinds were drawn
\* and the kind spawned last was drawn from the third bag.
C18_Witness ==
  /\ pc = "bag"
  /\ spawned > 14
  /\ Len(state.drawn) > 14
  /\ state.config.preview_count = 0

\* The queue of s holds exactly clamp(preview_count, 1, 6) kinds.
QueueFull(s) ==
  Len(s.next_pieces) =
    (IF s.config.preview_count < 1 THEN 1
     ELSE IF s.config.preview_count > 6 THEN 6
     ELSE s.config.preview_count)

\* C19: after GameState::new and after every spawn_piece, hold_piece,
\* hard_drop, lock_current_piece and complete_line_clear, next_pieces has
\* exactly clamp(preview_count, 1, 6) entries, also when the configured
\* preview_count is 0 or above 6.
C19_QueueAlwaysFull ==
  ~state.panicked =>
    /\ QueueFull(state)
    /\ \A sh \in ShufflesFor(state) :
         /\ QueueFull(spawn_piece(state, sh))
         /\ QueueFull(hold_piece(state, sh))
         /\ QueueFull(hard_drop(state, sh))
         /\ QueueFull(lock_current_piece(state, sh))
         /\ \A checks \in LevelOverflowChecks(state) :
              QueueFull(complete_line_clear(state, sh, checks))

\* A game configured with preview_count 7 in which a piece was hard-dropped
\* and its clear completed: the queue holds 6 kinds.
C19_Witness ==
  /\ state.config.preview_count = 7
  /\ Len(state.next_pieces) = 6
  /\ state.lines_cleared > 0
  /\ state.pieces_placed > 0
  /\ state.current_piece # Nil

\* C20: spawn_piece consumes the queue in FIFO order: the new current piece
\* has the kind that was at the head of next_pieces, at x = 0, y = 0,
\* rotation 0; the remaining previews keep their relative order, each moved
\* one place forward; and the kinds newly drawn from the bag are appended
\* only at the tail.
C20_SpawnConsumesQueueFifo ==
  (~state.panicked /\ state.next_pieces # <<>>) =>
    \A sh \in ShufflesFor(state) :
      LET s2 == spawn_piece(state, sh)
          old == state.next_pieces
          new == s2.next_pieces
          pops == SubSeq(s2.drawn, Len(state.drawn) + 1, Len(s2.drawn))
      IN
      /\ s2.current_piece = Some([kind |-> old[1], x |-> 0, y |-> 0, rotation |-> 0])
      /\ Len(new) >= Len(old) - 1
      /\ \A i \in 1..(Len(old) - 1) : new[i] = old[i + 1]
      /\ SubSeq(new, Len(old), Len(new)) = pops
      /\ Len(pops) = 1

\* The second spawn_piece of a game with 3 previews has made the second kind
\* drawn current, and the queue holds the third to fifth kinds drawn.
C20_Witness ==
  /\ spawned = 2
  /\ Len(state.drawn) = 5
  /\ state.current_piece = Some(Tetrimino_new(state.drawn[2]))
  /\ state.next_pieces = SubSeq(state.drawn, 3, 5)
  /\ state.held_piece = None

\* The piece t can take k single steps down on b, each to a valid position,
\* and not one more.
DropDistance(b, t, k) ==
  /\ \A j \in 1..k : CellsFree(b, Shifted(t, 0, j))
  /\ ~CellsFree(b, Shifted(t, 0, k + 1))

\* C21: hard_drop from a valid position locks the piece with unchanged x and
\* rotation at the largest y reachable by single downward steps that are all
\* valid, after at most height steps, and afterwards either a line clear is
\* pending or the next piece has been spawned.
C21_HardDropLandsAtLowestReachable ==
  (/\ ~state.panicked
   /\ state.current_piece # Nil
   /\ CellsFree(state.board, Cur)) =>
    \A sh \in ShufflesFor(state) :
      LET s2 == hard_drop(state, sh) IN
      /\ ~s2.panicked
      /\ \E k \in 0..state.board.height :
           /\ DropDistance(state.board, Cur, k)
           /\ s2.board.cells = WithPiece(state.board, Shifted(Cur, 0, k))
      /\ s2.pieces_placed = state.pieces_placed + 1
      /\ IF s2.pending_line_clear
           THEN s2.current_piece = Nil /\ s2.next_pieces = state.next_pieces
           ELSE s2.current_piece = Some(Tetrimino_new(Head(state.next_pieces)))

\* A valid piece in the spawn row, on a board that already holds a locked
\* piece, that can fall exactly two steps.
C21_Witness ==
  /\ ~state.panicked
  /\ state.current_piece # Nil
  /\ CellsFree(state.board, Cur)
  /\ Cur.y = 0
  /\ state.pieces_placed > 0
  /\ \E y \in 1..state.board.height : \E x \in 1..state.board.width :
       state.board.cells[y][x] # None
  /\ DropDistance(state.board, Cur, 2)

\* Every piece-moving call leaves the whole state s as it is.
FrozenCalls(s) ==
  /\ \A d \in MoveDeltas : move_piece(s, d[1], d[2]) = s
  /\ \A clockwise \in BOOLEAN : \A checks \in BOOLEAN :
       rotate_piece(s, clockwise, checks) = s
  /\ \A sh \in ShufflesFor(s) :
       /\ hold_piece(s, sh) = s
       /\ hard_drop(s, sh) = s
       /\ lock_current_piece(s, sh) = s

\* C22: while a line clear is pending in Game::run, move_piece, rotate_piece,
\* hold_piece, hard_drop and lock_current_piece leave the whole game state
\* unchanged, and the tick of the loop performs no gravity step: it changes
\* the state by complete_line_clear or not at all.
C22_FrozenWhilePending ==
  [][(state.pending_line_clear /\ ~state.panicked) =>
       /\ FrozenCalls(state)
       /\ pc = "tick" =>
            \/ state' = state
            \/ \E sh \in ShufflesFor(state) :
               \E checks \in LevelOverflowChecks(state) :
                 state' = complete_line_clear(state, sh, checks)]_vars

\* The loop polls input while a clear is pending.
C22_Witness ==
  /\ pc = "input"
  /\ state.pending_line_clear
  /\ state.line_clear_animation # Nil
  /\ ~state.game_over

\* C23: complete_line_clear is a no-op unless a clear is pending: when
\* pending_line_clear is false the call changes nothing (board, lines_cleared,
\* score, level, combo, current piece and next queue are all unchanged and no
\* piece is spawned).
C23_CompleteWithoutPendingIsNoOp ==
  (~state.pending_line_clear /\ ~state.panicked) =>
    \A sh \in ShufflesFor(state) :
    \A checks \in BOOLEAN :
      complete_line_clear(state, sh, checks) = state

\* A clear has been completed and the next piece spawned: nothing is pending.
C23_Witness ==
  /\ ~state.pending_line_clear
  /\ ~state.panicked
  /\ state.lines_cleared > 0
  /\ state.current_piece # Nil
  /\ state.next_pieces # <<>>

\* C24: with hold enabled, a current piece of kind K at any x, y, rotation
\* and a held kind H, hold_piece makes the current piece H at x = 0, y = 0,
\* rotation 0 and the held kind K, and leaves the next queue, the board, the
\* score and every other field unchanged.
C24_HoldSwapsAndResets ==
  (/\ ~state.panicked
   /\ state.config.enable_hold
   /\ state.current_piece # Nil
   /\ state.held_piece # None) =>
    \A sh \in ShufflesFor(state) :
      hold_piece(state, sh) =
        [state EXCEPT
           !.current_piece =
              Some([kind |-> state.held_piece, x |-> 0, y |-> 0, rotation |-> 0]),
           !.held_piece = Cur.kind]

\* A kind is held and the current piece, of another kind, has been moved
\* down and rotated.
C24_Witness ==
  /\ ~state.panicked
  /\ state.config.enable_hold
  /\ state.current_piece # Nil
  /\ state.held_piece # None
  /\ state.held_piece # Cur.kind
  /\ Cur.y > 0
  /\ Cur.rotation # 0

\* C25: with hold enabled, a current piece of kind K and no held piece,
\* hold_piece makes the held kind K and the current piece the former head of
\* next_pieces at x = 0, y = 0, rotation 0, and refills next_pieces so that it
\* is not shorter than its target length clamp(preview_count, 1, 6).
C25_HoldDrawsFromQueue ==
  (/\ ~state.panicked
   /\ state.config.enable_hold
   /\ state.current_piece # Nil
   /\ state.held_piece = None) =>
    \A sh \in ShufflesFor(state) :
      LET s2 == hold_piece(state, sh) IN
      /\ s2.held_piece = Cur.kind
      /\ s2.current_piece =
           Some([kind |-> Head(state.next_pieces), x |-> 0, y |-> 0, rotation |-> 0])
      /\ Len(s2.next_pieces) >= Len(state.next_pieces)
      /\ QueueFull(s2)
      /\ s2.board = state.board

\* Nothing is held, the current piece has been moved down, and the queue is
\* configured with preview_count 0, so it holds a single kind.
C25_Witness ==
  /\ ~state.panicked
  /\ state.config.enable_hold
  /\ state.config.preview_count = 0
  /\ state.current_piece # Nil
  /\ state.held_piece = None
  /\ Cur.y > 0
  /\ Len(state.next_pieces) = 1

\* C26: hold_piece is a no-op when it cannot apply: if hold is disabled by
\* configuration, or if there is no current piece, the call leaves
\* current_piece, held_piece, the next queue, the board, game_over and every
\* other field unchanged.
C26_HoldNoOpWhenInapplicable ==
  (~state.panicked /\ (~state.config.enable_hold \/ state.current_piece = Nil)) =>
    \A sh \in ShufflesFor(state) :
      hold_piece(state, sh) = state

\* Hold is disabled and there is a current piece, moved down, on a board on
\* which a piece has been locked.
C26_Witness ==
  /\ ~state.panicked
  /\ ~state.config.enable_hold
  /\ state.current_piece # Nil
  /\ Cur.y > 0
  /\ state.pieces_placed > 0
  /\ state.held_piece = None

\* The piece t turned clockwise in place.
TurnedClockwise(t) == [t EXCEPT !.rotation = (t.rotation + 1) % 4]

\* C27: from any position where both the clockwise-rotated and the original
\* orientation are valid without a kick, rotate_piece(clockwise) followed by
\* rotate_piece(counter-clockwise) returns the piece to its original rotation
\* value mod 4 and to its original x and y.
C27_RotationRoundTrip ==
  (/\ ~state.panicked
   /\ state.current_piece # Nil
   /\ CellsFree(state.board, Cur)
   /\ CellsFree(state.board, TurnedClockwise(Cur))) =>
    \A checks1 \in OverflowChecks(state, TRUE) :
      LET s1 == rotate_piece(state, TRUE, checks1) IN
      /\ ~s1.panicked
      /\ \A checks2 \in OverflowChecks(s1, FALSE) :
           LET s2 == rotate_piece(s1, FALSE, checks2) IN
           /\ ~s2.panicked
           /\ s2.current_piece # Nil
           /\ Unwrap(s2.current_piece).rotation % 4 = Cur.rotation % 4
           /\ Unwrap(s2.current_piece).x = Cur.x
           /\ Unwrap(s2.current_piece).y = Cur.y
           /\ Unwrap(s2.current_piece).kind = Cur.kind

\* The number of full rows of a grid that lie below row y.
FullRowsBelow(cells, y) == Cardinality({f \in FullRowSet(cells) : f > y})

\* C28: clear_lines preserves everything that is not a full row: afterwards
\* each row that was not full is found, unchanged, lower by exactly the number
\* of full rows that were below it (so their relative order is kept), the top
\* rows, as many as rows were cleared, are empty, and the grid still has
\* exactly height rows of exactly width cells.
C28_ClearLinesKeepsOtherRows ==
  pc = "board" =>
    LET before == state.board.cells
        r == clear_lines(state.board)
        after == r.board.cells
    IN
    /\ \A y \in 0..(state.board.height - 1) :
         y \notin FullRowSet(before) =>
           after[y + FullRowsBelow(before, y) + 1] = before[y + 1]
    /\ \A y \in 1..r.lines : after[y] = EmptyRow(state.board.width)
    /\ Len(after) = state.board.height
    /\ \A y \in 1..Len(after) : Len(after[y]) = state.board.width
    /\ r.board.width = state.board.width
    /\ r.board.height = state.board.height

\* Two rows have been cleared from between and below two partly filled rows,
\* which now lie at the bottom under two empty rows.
C28_Witness ==
  /\ pc = "cleared"
  /\ ret = 2
  /\ state.board.cells[1] = EmptyRow(state.board.width)
  /\ state.board.cells[2] = EmptyRow(state.board.width)
  /\ state.board.cells[state.board.height - 1][1] = "T"
  /\ state.board.cells[state.board.height][1] = "O"
  /\ ~RowFull(state.board.cells[state.board.height])

\* The cells of a grid that differ between two boards of the same shape.
ChangedCells(b1, b2) ==
  {c \in (0..(b1.width - 1)) \X (0..(b1.height - 1)) :
     b1.cells[c[2] + 1][c[1] + 1] # b2.cells[c[2] + 1][c[1] + 1]}

\* C29: on a fresh board every cell is empty, and after any sequence of locks
\* at valid positions get_cell of an in-range coordinate returns the kind of
\* the last locked piece that covered it, or None if no lock covered it; each
\* lock changes exactly the 4 cells of its piece and no other cell.
C29_LockedCellsReadBack ==
  /\ [](pc = "lock" =>
          \A x \in 0..(state.board.width - 1) :
          \A y \in 0..(state.board.height - 1) :
            get_cell(state.board, x, y) = written[y + 1][x + 1])
  /\ [][pc = "lock" =>
          LET t == Unwrap(state'.current_piece) IN
          /\ ChangedCells(state.board, state'.board)
               = {AbsBlock(t, i) : i \in 1..4}
          /\ Cardinality(ChangedCells(state.board, state'.board)) = 4
          /\ state'.board.width = state.board.width
          /\ state'.board.height = state.board.height]_vars

\* Two pieces of different kinds have been locked on the fresh board, the
\* second one a T, and both read back.
C29_Witness ==
  /\ pc = "lock"
  /\ LockedCells = 8
  /\ state.current_piece # Nil
  /\ Cur.kind = "T"
  /\ \E x \in 0..(state.board.width - 1) : \E y \in 0..(state.board.height - 1) :
       get_cell(state.board, x, y) = "I"
  /\ \E i \in 1..4 : get_cell(state.board, AbsBlock(Cur, i)[1], AbsBlock(Cur, i)[2]) = "T"

\* The rotation state of a counter value r: the k in 0..3 with r = 4q + k
\* (2^64 is a multiple of 4, so the written value and the usize agree).
RotationState(r) ==
  CHOOSE k \in 0..3 : \E q \in -1..(MaxRotation + 1) : r = 4 * q + k

\* C30: for every kind and every rotation value r, get_blocks returns exactly
\* 4 pairwise distinct offsets, the same as for the rotation value r mod 4,
\* and for kind O the same 4 offsets for every r.
C30_CatalogWellFormed ==
  pc = "probe" =>
    LET blocks == get_blocks(Cur) IN
    /\ Len(blocks) = 4
    /\ \A i \in 1..4 : \A j \in 1..4 : i # j => blocks[i] # blocks[j]
    /\ blocks = get_blocks([Cur EXCEPT !.rotation = RotationState(Cur.rotation)])
    /\ Cur.kind = "O" =>
         \A r \in ProbeRotations : get_blocks([Cur EXCEPT !.rotation = r]) = blocks

\* A vertical I piece whose rotation counter has gone once around (5) was
\* found at a valid position through the offsets of rotation state 1.
C30_Witness ==
  /\ pc = "probed"
  /\ ret = 1
  /\ Cur.kind = "I"
  /\ Cur.rotation = 5
  /\ RotationState(Cur.rotation) = 1

\* C31: clear_lines never tests row index 0: on a board whose only full row
\* is row 0 the call returns 0 and leaves every cell unchanged.
C31_TopRowNeverTested ==
  [][(BoardClearLines /\ FullRowSet(state.board.cells) = {0}) =>
       /\ ret' = 0
       /\ state'.board = state.board]_vars

\* clear_lines has returned 0 on a board whose top row, and no other row, is
\* full, with a partly filled row at the bottom.
C31_Witness ==
  /\ pc = "cleared"
  /\ ret = 0
  /\ FullRowSet(state.board.cells) = {0}
  /\ state.board.cells[state.board.height][1] = "T"

\* The goal a completed clear of n lines leaves when the back-to-back
\* reduction is taken as 0: the level update on the counters as update_score
\* has them at that point, with the flag down.
GoalWithoutReduction(s, n) ==
  update_level_variable_goal(
    [s EXCEPT !.combo_count = s.combo_count + 1,
              !.back_to_back_active = FALSE],
    n, check_tspin(s)).lines_until_next_level

\* C32: under the variable goal the back-to-back reduction of the next goal is
\* applied only when the current clear is special and the back-to-back flag
\* was already up before the clear: a clear that is not special, and a special
\* clear made with the flag down, leave the goal that a reduction of 0 gives.
C32_ReductionNeedsEarlierSpecial ==
  (/\ pc = "score"
   /\ state.pending_line_clear
   /\ ~state.panicked
   /\ state.config.enable_variable_goal) =>
    \A n \in 1..4 :
      ~(state.back_to_back_active /\ (n = 4 \/ check_tspin(state))) =>
        score_complete(state, n, FALSE).lines_until_next_level
          = GoalWithoutReduction(state, n)

\* C33: every pending clear is resolved by polling: at a tick of the run loop
\* a pending clear of n rows is completed exactly when at least n x 500 ms
\* have passed since the lock, never earlier; and, as long as the loop keeps
\* running, every pending clear is eventually completed and followed by a
\* new piece (or game_over).
C33_PendingClearResolvedByPolling ==
  /\ [][(pc = "tick" /\ state.pending_line_clear /\ state.line_clear_animation # Nil) =>
          /\ (~state'.pending_line_clear)
               <=> clock.anim_elapsed >= Unwrap(state.line_clear_animation).total_lines * 500
          /\ (~state'.pending_line_clear) =>
               /\ state'.line_clear_animation = Nil
               /\ state'.current_piece # Nil \/ state'.game_over]_vars
  /\ state.pending_line_clear
       ~> \/ ~state.pending_line_clear /\ (state.current_piece # Nil \/ state.game_over)
          \/ pc = "over"

\* A clear of 2 rows made by the first piece has just been completed, at the
\* tick at which 1000 ms had passed since the lock, and a new piece is there.
C33_Witness ==
  /\ pc = "check"
  /\ ~state.pending_line_clear
  /\ state.pieces_placed = 1
  /\ state.lines_cleared = 2
  /\ clock.anim_elapsed = 1000
  /\ state.current_piece # Nil
  /\ ~state.game_over

\* C34: in every state reached through spawn_piece, move_piece, rotate_piece,
\* hold_piece, hard_drop, lock_current_piece and complete_line_clear in which
\* game_over is false and there is a current piece, the current piece is at a
\* valid position: its 4 cells are in bounds and on empty cells.
C34_CurrentPieceValid ==
  (~state.game_over /\ state.current_piece # Nil) =>
    CellsFree(state.board, Cur)

\* C35: the rotation counter never overflows or wraps: for every rotate_piece
\* call on a reachable state, in both directions, old + 1 and old - 1 are
\* values of the unsigned machine integer (0..usize::MAX).
C35_RotationCounterInRange ==
  (state.current_piece # Nil /\ ~state.panicked) =>
    \A clockwise \in BOOLEAN :
      IF clockwise THEN Cur.rotation # USIZE_MAX ELSE Cur.rotation # 0

\* C36: under the fixed goal with lines_per_level >= 4 the bookkeeping is
\* consistent in every reachable state: 1 <= lines_until_next_level <=
\* lines_per_level, and lines_cleared = (level - starting_level) *
\* lines_per_level + (lines_per_level - lines_until_next_level).
C36_FixedGoalBookkeeping ==
  (/\ pc = "score"
   /\ ~state.panicked
   /\ ~state.config.enable_variable_goal
   /\ state.config.lines_per_level >= 4) =>
    /\ state.lines_until_next_level >= 1
    /\ state.lines_until_next_level <= state.config.lines_per_level
    /\ state.lines_cleared
         = (state.level - state.config.starting_level) * state.config.lines_per_level
           + (state.config.lines_per_level - state.lines_until_next_level)

\* Under the fixed goal with 4 lines per level a clear of 4 lines has come
\* after a clear of 3: one level up, with 1 line left to the next level.
C36_Witness ==
  /\ pc = "score"
  /\ ~state.panicked
  /\ ~state.config.enable_variable_goal
  /\ state.config.lines_per_level = 4
  /\ state.lines_cleared = 7
  /\ state.level = state.config.starting_level + 1
  /\ state.lines_until_next_level = 1

\* C37: the fixed-goal reset never underflows: for every configured
\* lines_per_level >= 1 and every clear of 1 to 4 lines, the overflow (lines
\* cleared minus lines_until_next_level) is at most lines_per_level, so
\* lines_per_level - overflow is a non-negative 32-bit value.
C37_FixedGoalResetInRange ==
  (/\ pc = "score"
   /\ state.pending_line_clear
   /\ ~state.panicked
   /\ ~state.config.enable_variable_goal
   /\ state.config.lines_per_level >= 1) =>
    \A n \in 1..4 :
      U32Ge(n, state.lines_until_next_level) =>
        /\ n - state.lines_until_next_level <= state.config.lines_per_level
        /\ state.config.lines_per_level - (n - state.lines_until_next_level) >= 0

\* C38: the pending-clear marker is consistent in every state reached through
\* the operations of the run loop: pending_line_clear is true exactly when
\* line_clear_animation is present, and whenever it is true there is no
\* current piece and the board has at least one full row.
C38_PendingMarkerConsistent ==
  /\ state.pending_line_clear <=> state.line_clear_animation # Nil
  /\ state.pending_line_clear =>
       /\ state.current_piece = Nil
       /\ FullRowSet(state.board.cells) # {}

\* The run loop is at its tick with a clear pending that the second or a
\* later lock has made.
C38_Witness ==
  /\ pc = "tick"
  /\ state.pending_line_clear
  /\ state.line_clear_animation # Nil
  /\ state.current_piece = Nil
  /\ state.pieces_placed >= 2
  /\ FullRowSet(state.board.cells) # {}

\* C39: gravity follows the level: at every gravity decision of Game::run the
\* interval the elapsed time is compared with is get_gravity_duration() for
\* the level of that moment, max(50, 800 / 2^min(level - 1, 10)) ms.
C39_GravityFollowsLevel ==
  (pc = "tick" /\ ~state.pending_line_clear /\ ~state.panicked) =>
    /\ clock.gravity_duration = get_gravity_duration(state.level)
    /\ get_gravity_duration(state.level)
         = Max(50, 800 \div (2 ^ Min(state.level - 1, 10)))

\* C40: the ghost piece shows the real landing spot: for every board and
\* current piece the row calculate_ghost_y returns is the y at which hard_drop
\* locks the piece, with the same x and rotation (the cells the lock writes,
\* where it writes inside the grid, are the piece's cells at that row), and
\* the ghost search ends after at most as many steps as there are rows below
\* the piece.
C40_GhostIsLandingRow ==
  pc = "probe" =>
    LET landed == Unwrap(DropLoop(state).current_piece)
        ghost_y == calculate_ghost_y(state)
    IN
    /\ ghost_y = landed.y
    /\ landed.x = Cur.x
    /\ landed.rotation = Cur.rotation
    /\ ghost_y >= Cur.y
    /\ ghost_y - Cur.y <= state.board.height - Cur.y
    /\ \A sh \in Shuffles :
         LET s2 == hard_drop(state, sh) IN
         ~s2.panicked =>
           s2.board.cells = WithPiece(state.board, [Cur EXCEPT !.y = ghost_y])

\* The ghost of an O piece in the top row was found at least one row further
\* down, resting on locked cells above the floor.
C40_Witness ==
  /\ pc = "ghost"
  /\ Cur.kind = "O"
  /\ Cur.y = 0
  /\ ret >= 1
  /\ ret + 2 < state.board.height
  /\ CellsFree(state.board, Cur)
  /\ CellsFree(state.board, [Cur EXCEPT !.y = ret])
  /\ ~CellsFree(state.board, [Cur EXCEPT !.y = ret + 1])

====
